---- MODULE Spec2Model ----
(***************************************************************************)
(* A model of the fastapi-demo-project backend: the generic repository     *)
(* (app/core/repository.py), the hero service with its cache-aside layer   *)
(* (app/domains/heroes/heroes_serv.py), the request-scoped transaction     *)
(* (app/core/database.py), the bearer-token validator                      *)
(* (app/domains/users/auth_dependencies.py) and the collection repository  *)
(* with its ownership-scoping proxy (app/domains/collections).             *)
(***************************************************************************)
EXTENDS Integers, Sequences, FiniteSets, TLC

VARIABLES
  heroes,          \* committed rows of table "heroes": id -> [name, alias, powers]
  hero_seq,        \* last value handed out by the autoincrement of heroes.id
  cache,           \* redis db 2 (cache_redis): hero id -> [json, ex]
  req,             \* the hero requests in flight: request -> its task's state
  staleG,          \* history: hero id -> serialized values superseded by an acknowledged mutation
  users,           \* committed rows of table "users": id -> [username, password_hash]
  auth_cache,      \* redis db 1 (auth_redis): username -> [json, ex]
  areq,            \* the credential being validated by get_current_user
  collections,     \* committed rows of table "collections": id -> [title, description, user_id]
  coll_seq,        \* last value handed out by the autoincrement of collections.id
  collection_hero, \* rows of the join table: set of <<collection_id, hero_id>>
  last,            \* the last collection operation and what it answered
  listing,         \* one list request: its arguments and what each execution returned
  ureq,            \* the registration and login requests in flight: request -> its task's state
  envelope         \* one pagination envelope: the numbers given and what was assembled

vars == <<heroes, hero_seq, cache, req, staleG, users, auth_cache, areq,
          collections, coll_seq, collection_hero, last, listing, ureq, envelope>>

heroVars == <<heroes, hero_seq, cache, req, staleG>>
authVars == <<users, auth_cache, areq>>
collVars == <<collections, coll_seq, collection_hero, last>>
listVars == <<listing>>
userVars == <<ureq>>
pageVars == <<envelope>>

----------------------------------------------------------------------------
(* Bounds of the model *)

MaxReq == 2        \* concurrent hero requests
MaxHero == 2       \* rows the heroes autoincrement may hand out
MaxColl == 2       \* rows the collections autoincrement may hand out
MaxUser == 2       \* rows the users autoincrement may hand out

(* Program constants *)

CACHE_TTL == 900   \* 60 * 15

----------------------------------------------------------------------------
(* Values *)

None == "None"                 \* Python None, SQL NULL, a key absent from redis
Unset == "<unset>"             \* a field the client did not send (exclude_unset drops it)

Reqs == 1..MaxReq
HeroIds == 1..MaxHero
Names == {"a", "b"}
Aliases == {"x", "y"}
Powers == {None, "p"}

\* Remove a key from a function, add or overwrite one.
Drop(f, k) == [x \in DOMAIN f \ {k} |-> f[x]]
Put(f, k, v) == [x \in DOMAIN f \cup {k} |-> IF x = k THEN v ELSE f[x]]

----------------------------------------------------------------------------
(* Schemas and the serialization boundary *)

\* HeroCreate: name and alias are required strings, powers is optional.
HeroCreateInputs == [name : Names, alias : Aliases, powers : Powers]

\* HeroUpdate: every field optional; a field is unset, or set (powers also to None).
HeroUpdateInputs ==
  { [name |-> Unset, alias |-> Unset, powers |-> Unset],
    [name |-> "b",   alias |-> Unset, powers |-> Unset],
    [name |-> "a",   alias |-> Unset, powers |-> Unset],
    [name |-> Unset, alias |-> "y",   powers |-> Unset],
    [name |-> Unset, alias |-> Unset, powers |-> None],
    [name |-> Unset, alias |-> Unset, powers |-> "p"],
    [name |-> "b",   alias |-> Unset, powers |-> None] }

\* obj_in.model_dump(exclude_unset=True): the fields that were sent.
ModelDumpExcludeUnset(obj_in) == {f \in DOMAIN obj_in : obj_in[f] # Unset}

\* HeroResponse.model_validate(orm): the DTO built from the ORM object's attributes.
HeroResponseValidate(id, row) ==
  [id |-> id, name |-> row.name, alias |-> row.alias, powers |-> row.powers]

\* HeroResponse.model_dump_json(): the JSON text, as the ordered field values.
HeroDumpJson(dto) == <<dto.id, dto.name, dto.alias, dto.powers>>

\* HeroResponse.model_validate_json(text)
HeroValidateJson(js) == [id |-> js[1], name |-> js[2], alias |-> js[3], powers |-> js[4]]

----------------------------------------------------------------------------
(* Storage: table heroes, and the session of one request *)

NoRow == [name |-> None, alias |-> None, powers |-> None]
NoDto == [id |-> 0, name |-> None, alias |-> None, powers |-> None]
NoTx == [kind |-> "none", id |-> 0, row |-> NoRow]
NoInput == [name |-> Unset, alias |-> Unset, powers |-> Unset]

IdleReq ==
  [op |-> "idle", pc |-> "idle", id |-> 0, obj_in |-> NoInput, db_obj |-> NoRow,
   tx |-> NoTx, ret |-> NoDto, err |-> "none", hit |-> FALSE, queries |-> 0,
   flushed |-> FALSE, cached |-> << >>, stale |-> {}, removed |-> 0]

\* Another session holds an uncommitted write on row id: the statement waits for it.
RowLocked(r, id) ==
  \E s \in Reqs \ {r} : req[s].tx.kind # "none" /\ req[s].tx.id = id

\* Another session holds an uncommitted write that gives or takes alias a:
\* the unique index makes the statement wait for that transaction to end.
AliasPending(r, a) ==
  \E s \in Reqs \ {r} :
     \/ req[s].tx.kind \in {"insert", "update"} /\ req[s].tx.row.alias = a
     \/ /\ req[s].tx.kind \in {"update", "delete"}
        /\ req[s].tx.id \in DOMAIN heroes
        /\ heroes[req[s].tx.id].alias = a

\* The unique constraint on heroes.alias, seen by a statement writing alias a to row id.
HeroAliasTaken(id, a) ==
  \E h \in DOMAIN heroes : h # id /\ heroes[h].alias = a

\* The foreign key collection_hero.hero_id -> heroes.id, seen by DELETE of hero id.
HeroReferenced(id) == \E p \in collection_hero : p[2] = id

----------------------------------------------------------------------------
(* RepositoryBase over Hero (HeroRepository), one awaited call per step *)

\* RepositoryBase.get without its "if not obj: raise": the missing row comes back as None.
RepoGet_NoRaise(r) ==
  IF req[r].id \in DOMAIN heroes
  THEN [err |-> "none", db_obj |-> heroes[req[r].id]]
  ELSE [err |-> "none", db_obj |-> NoRow]

\* RepositoryBase.get reading what another session has flushed and not committed.
RepoGet_Dirty(r) ==
  IF \E s \in Reqs \ {r} : req[s].tx.kind = "update" /\ req[s].tx.id = req[r].id
  THEN [err |-> "none",
        db_obj |-> req[CHOOSE s \in Reqs \ {r} :
                         req[s].tx.kind = "update" /\ req[s].tx.id = req[r].id].tx.row]
  ELSE IF req[r].id \in DOMAIN heroes
  THEN [err |-> "none", db_obj |-> heroes[req[r].id]]
  ELSE [err |-> "NotFound", db_obj |-> NoRow]

\* RepositoryBase.get: session.get(model, id), NotFoundException when there is no row.
RepoGet(r) ==
  IF req[r].id \in DOMAIN heroes
  THEN [err |-> "none", db_obj |-> heroes[req[r].id]]
  ELSE [err |-> "NotFound", db_obj |-> NoRow]

\* RepositoryBase.create / HeroRepository.create: add, flush, refresh;
\* IntegrityError becomes AlreadyExistsException.
RepoCreateFlush(r) ==
  LET obj == req[r].obj_in IN
  IF HeroAliasTaken(0, obj.alias)
  THEN [err |-> "AlreadyExists", tx |-> NoTx, db_obj |-> NoRow]
  ELSE [err |-> "none",
        tx |-> [kind |-> "insert", id |-> hero_seq + 1, row |-> obj],
        db_obj |-> obj]

\* The attributes setattr really changed on the loaded object: only these are in the UPDATE.
Changed(db_obj, obj_in) ==
  {f \in ModelDumpExcludeUnset(obj_in) : obj_in[f] # db_obj[f]}

\* RepositoryBase.update: nothing sent -> the object as it is, no flush;
\* otherwise setattr each sent field, flush, refresh. No IntegrityError handler.
RepoUpdateFlush(r) ==
  LET id == req[r].id
      obj_in == req[r].obj_in
      db_obj == req[r].db_obj
      ch == Changed(db_obj, obj_in)
      new == [f \in DOMAIN NoRow |-> IF f \in ch THEN obj_in[f] ELSE heroes[id][f]]
  IN
  IF ModelDumpExcludeUnset(obj_in) = {}
  THEN [err |-> "none", tx |-> NoTx, db_obj |-> db_obj, flushed |-> FALSE]
  ELSE IF id \notin DOMAIN heroes
  THEN [err |-> "StaleDataError", tx |-> NoTx, db_obj |-> NoRow, flushed |-> TRUE]
  ELSE IF HeroAliasTaken(id, new.alias)
  THEN [err |-> "IntegrityError", tx |-> NoTx, db_obj |-> NoRow, flushed |-> TRUE]
  ELSE [err |-> "none",
        tx |-> IF ch = {} THEN NoTx ELSE [kind |-> "update", id |-> id, row |-> new],
        db_obj |-> new, flushed |-> TRUE]

\* RepositoryBase.delete after its get: session.delete(obj), flush. No IntegrityError handler.
RepoDeleteFlush(r) ==
  LET id == req[r].id IN
  IF HeroReferenced(id)
  THEN [err |-> "IntegrityError", tx |-> NoTx]
  ELSE [err |-> "none",
        tx |-> IF id \in DOMAIN heroes
               THEN [kind |-> "delete", id |-> id, row |-> heroes[id]]
               ELSE NoTx]

----------------------------------------------------------------------------
(* HeroService, one step per awaited call; get_db commits or rolls back last *)

\* A request enters the route: get_db opens the session and its transaction.
\* What the last collection request answered belongs to a task that is over.
StartHero(r, op, id, obj_in) ==
  /\ req[r].pc \in {"idle", "done"}
  /\ req' = [req EXCEPT ![r] =
       [IdleReq EXCEPT !.op = op, !.id = id, !.obj_in = obj_in,
                       !.pc = CASE op = "create_hero" -> "create_flush"
                                [] op = "get_hero"    -> "redis_get"
                                [] op = "update_hero" -> "upd_get"
                                [] op = "delete_hero" -> "del_get",
                       !.stale = IF id \in DOMAIN staleG THEN staleG[id] ELSE {}]]
  /\ last' = [op |-> "none", repo |-> "none", user |-> 0, id |-> 0, hero_id |-> 0,
              obj_in |-> [title |-> Unset, description |-> Unset], err |-> "none",
              ret |-> [id |-> 0, title |-> None, description |-> None, user_id |-> 0],
              flushed |-> FALSE, cascaded |-> {}]
  /\ UNCHANGED <<heroes, hero_seq, cache, staleG, authVars,
                 collections, coll_seq, collection_hero, listVars, userVars, pageVars>>

CreateHero(r, CreateInputs) ==
  \E obj_in \in CreateInputs : StartHero(r, "create_hero", 0, obj_in)

GetHero(r, Ids) ==
  \E id \in Ids : StartHero(r, "get_hero", id, NoInput)

UpdateHero(r, Ids, UpdateInputs) ==
  \E id \in Ids, obj_in \in UpdateInputs : StartHero(r, "update_hero", id, obj_in)

DeleteHero(r, Ids) ==
  \E id \in Ids : StartHero(r, "delete_hero", id, NoInput)

\* create_hero: repository.create(obj_in), then HeroResponse.model_validate.
CreateFlush(r) ==
  /\ req[r].pc = "create_flush"
  /\ hero_seq < MaxHero
  /\ ~AliasPending(r, req[r].obj_in.alias)
  /\ LET res == RepoCreateFlush(r) IN
     /\ req' = [req EXCEPT ![r].err = res.err, ![r].tx = res.tx, ![r].flushed = TRUE,
                           ![r].db_obj = res.db_obj,
                           ![r].id = res.tx.id,
                           ![r].ret = IF res.err = "none"
                                      THEN HeroResponseValidate(res.tx.id, res.db_obj)
                                      ELSE NoDto,
                           ![r].pc = IF res.err = "none" THEN "commit" ELSE "rollback"]
     /\ hero_seq' = IF res.err = "none" THEN hero_seq + 1 ELSE hero_seq
  /\ UNCHANGED <<heroes, cache, staleG, authVars, collVars, listVars, userVars, pageVars>>

\* get_hero: cached = await redis.get(key); a hit is validated and returned.
GetRedisGet(r) ==
  /\ req[r].pc = "redis_get"
  /\ IF req[r].id \in DOMAIN cache
     THEN req' = [req EXCEPT ![r].hit = TRUE,
                             ![r].cached = cache[req[r].id].json,
                             ![r].ret = HeroValidateJson(cache[req[r].id].json),
                             ![r].pc = "commit"]
     ELSE req' = [req EXCEPT ![r].pc = "repo_get"]
  /\ UNCHANGED <<heroes, hero_seq, cache, staleG, authVars, collVars, listVars, userVars, pageVars>>

\* get_hero: hero_orm = await repository.get(id=hero_id)
GetRepoGet(r) ==
  /\ req[r].pc = "repo_get"
  /\ LET res == RepoGet(r) IN
     req' = [req EXCEPT ![r].queries = @ + 1, ![r].err = res.err,
                        ![r].db_obj = res.db_obj,
                        ![r].pc = IF res.err = "none" THEN "redis_set" ELSE "rollback"]
  /\ UNCHANGED <<heroes, hero_seq, cache, staleG, authVars, collVars, listVars, userVars, pageVars>>

\* get_hero with the redis.set call left out: the miss returns and stores nothing.
GetRedisSet_NoStore(r) ==
  /\ req[r].pc = "redis_set"
  /\ LET hero_dto == HeroResponseValidate(req[r].id, req[r].db_obj) IN
     req' = [req EXCEPT ![r].ret = hero_dto, ![r].pc = "commit"]
  /\ UNCHANGED <<heroes, hero_seq, cache, staleG, authVars, collVars, listVars, userVars, pageVars>>

\* get_hero: await redis.set(key, hero_dto.model_dump_json(), ex=CACHE_TTL)
GetRedisSet(r) ==
  /\ req[r].pc = "redis_set"
  /\ LET hero_dto == HeroResponseValidate(req[r].id, req[r].db_obj) IN
     /\ cache' = Put(cache, req[r].id, [json |-> HeroDumpJson(hero_dto), ex |-> CACHE_TTL])
     /\ req' = [req EXCEPT ![r].ret = hero_dto, ![r].pc = "commit"]
  /\ UNCHANGED <<heroes, hero_seq, staleG, authVars, collVars, listVars, userVars, pageVars>>

\* update_hero: db_obj_to_update = await repository.get(id=hero_id)
UpdGet(r) ==
  /\ req[r].pc = "upd_get"
  /\ LET res == RepoGet(r) IN
     req' = [req EXCEPT ![r].queries = @ + 1, ![r].err = res.err,
                        ![r].db_obj = res.db_obj,
                        ![r].pc = IF res.err = "none" THEN "upd_flush" ELSE "rollback"]
  /\ UNCHANGED <<heroes, hero_seq, cache, staleG, authVars, collVars, listVars, userVars, pageVars>>

\* update_hero: updated_hero_orm = await repository.update(db_obj=..., obj_in=obj_in)
UpdFlush(r) ==
  /\ req[r].pc = "upd_flush"
  /\ ~RowLocked(r, req[r].id)
  /\ \A f \in {"alias"} \cap ModelDumpExcludeUnset(req[r].obj_in) :
        ~AliasPending(r, req[r].obj_in[f])
  /\ LET res == RepoUpdateFlush(r) IN
     req' = [req EXCEPT ![r].err = res.err, ![r].tx = res.tx,
                        ![r].flushed = res.flushed,
                        ![r].db_obj = res.db_obj,
                        ![r].ret = IF res.err = "none"
                                   THEN HeroResponseValidate(req[r].id, res.db_obj)
                                   ELSE NoDto,
                        ![r].pc = IF res.err = "none" THEN "upd_invalidate" ELSE "rollback"]
  /\ UNCHANGED <<heroes, hero_seq, cache, staleG, authVars, collVars, listVars, userVars, pageVars>>

\* delete_hero: repository.delete begins with obj = await self.get(id=id)
DelGet(r) ==
  /\ req[r].pc = "del_get"
  /\ LET res == RepoGet(r) IN
     req' = [req EXCEPT ![r].queries = @ + 1, ![r].err = res.err,
                        ![r].db_obj = res.db_obj,
                        ![r].pc = IF res.err = "none" THEN "del_flush" ELSE "rollback"]
  /\ UNCHANGED <<heroes, hero_seq, cache, staleG, authVars, collVars, listVars, userVars, pageVars>>

\* delete_hero: repository.delete goes on with session.delete(obj) and flush
DelFlush(r) ==
  /\ req[r].pc = "del_flush"
  /\ ~RowLocked(r, req[r].id)
  /\ LET res == RepoDeleteFlush(r) IN
     req' = [req EXCEPT ![r].err = res.err, ![r].tx = res.tx, ![r].flushed = TRUE,
                        ![r].pc = IF res.err = "none" THEN "del_invalidate" ELSE "rollback"]
  /\ UNCHANGED <<heroes, hero_seq, cache, staleG, authVars, collVars, listVars, userVars, pageVars>>

\* update_hero / delete_hero without the redis.delete call: the key stays.
Invalidate_Keep(r) ==
  /\ req[r].pc \in {"upd_invalidate", "del_invalidate"}
  /\ cache' = cache
  /\ req' = [req EXCEPT ![r].pc = "commit"]
  /\ UNCHANGED <<heroes, hero_seq, staleG, authVars, collVars, listVars, userVars, pageVars>>

\* update_hero / delete_hero: await redis.delete(key), then the method returns;
\* removed is the number of keys redis reports as deleted.
Invalidate(r) ==
  /\ req[r].pc \in {"upd_invalidate", "del_invalidate"}
  /\ cache' = Drop(cache, req[r].id)
  /\ req' = [req EXCEPT ![r].pc = "commit",
                        ![r].removed = IF req[r].id \in DOMAIN cache THEN 1 ELSE 0]
  /\ UNCHANGED <<heroes, hero_seq, staleG, authVars, collVars, listVars, userVars, pageVars>>

\* update_hero / delete_hero: await redis.delete(key) raises (redis cannot be reached);
\* the exception leaves the route and get_db rolls the flushed write back.
InvalidateFails(r) ==
  /\ req[r].pc \in {"upd_invalidate", "del_invalidate"}
  /\ req' = [req EXCEPT ![r].pc = "rollback", ![r].err = "ConnectionError",
                        ![r].ret = NoDto]
  /\ UNCHANGED <<heroes, hero_seq, cache, staleG, authVars, collVars, listVars, userVars,
                 pageVars>>

\* The rows of heroes once transaction tx is committed.
Apply(tx) ==
  CASE tx.kind = "none" -> heroes
    [] tx.kind \in {"insert", "update"} -> Put(heroes, tx.id, tx.row)
    [] tx.kind = "delete" -> Drop(heroes, tx.id)

\* get_db: the route returned, session.begin() commits; the response follows.
Commit(r, history) ==
  /\ req[r].pc = "commit"
  /\ LET tx == req[r].tx
         pre == IF tx.id \in DOMAIN heroes
                THEN {HeroDumpJson(HeroResponseValidate(tx.id, heroes[tx.id]))} ELSE {}
         post == IF tx.kind \in {"insert", "update"}
                 THEN {HeroDumpJson(HeroResponseValidate(tx.id, tx.row))} ELSE {}
         old == IF tx.id \in DOMAIN staleG THEN staleG[tx.id] ELSE {}
     IN
     /\ heroes' = Apply(tx)
     /\ staleG' = IF tx.kind = "none" \/ ~history THEN staleG
                  ELSE Put(staleG, tx.id, (old \cup pre) \ post)
     /\ req' = [s \in Reqs |->
                  IF s = r THEN [req[r] EXCEPT !.pc = "done", !.tx = NoTx]
                  ELSE IF tx.kind # "none" /\ req[s].id = tx.id
                       THEN [req[s] EXCEPT !.stale = @ \ post]
                       ELSE req[s]]
  /\ UNCHANGED <<hero_seq, cache, authVars, collVars, listVars, userVars, pageVars>>

\* get_db: an exception left the route, session.begin() rolls back and re-raises.
Rollback(r) ==
  /\ req[r].pc = "rollback"
  /\ req' = [req EXCEPT ![r].pc = "done", ![r].tx = NoTx, ![r].ret = NoDto]
  /\ UNCHANGED <<heroes, hero_seq, cache, staleG, authVars, collVars, listVars, userVars, pageVars>>

\* redis drops a key whose ex seconds have passed.
Expire ==
  /\ \E k \in DOMAIN cache : cache' = Drop(cache, k)
  /\ UNCHANGED <<heroes, hero_seq, req, staleG, authVars, collVars, listVars, userVars, pageVars>>

HeroStep(r, history) ==
  \/ CreateFlush(r)
  \/ GetRedisGet(r) \/ GetRepoGet(r) \/ GetRedisSet(r)
  \/ UpdGet(r) \/ UpdFlush(r)
  \/ DelGet(r) \/ DelFlush(r)
  \/ Invalidate(r)
  \/ Commit(r, history) \/ Rollback(r)

----------------------------------------------------------------------------
(* Users, registration and the bearer-token validator *)

Usernames == {"alice", "bob"}
Passwords == {"pw"}

\* get_password_hash: the argon2 hash of a password (never the password itself).
GetPasswordHash(password) == <<"argon2", password>>

\* What a bearer token can be: not a JWT, signed with another key, past its exp,
\* or well-formed; the payload may or may not carry "sub".
Tokens == [form : {"malformed", "mis-signed", "expired", "ok"}, sub : Usernames \cup {None}]

NoUser == [id |-> 0, username |-> None]
NoError == [type |-> "none", status_code |-> 0, detail |-> None, headers |-> None]

\* credentials_exception, built alike in _username_from_token and get_current_user.
CredentialsException ==
  [type |-> "HTTPException", status_code |-> 401,
   detail |-> "Could not validate credentials", headers |-> "WWW-Authenticate: Bearer"]

\* pydantic's error for UserInDB.model_validate(None); nothing here catches it.
ValidationError ==
  [type |-> "ValidationError", status_code |-> 0, detail |-> "model_attributes_type",
   headers |-> None]

IdleAuth ==
  [pc |-> "idle", token |-> [form |-> "malformed", sub |-> None], username |-> None,
   user |-> NoUser, err |-> NoError, hit |-> FALSE, cached |-> << >>, queries |-> 0]

\* jwt.decode(token, JWT_SECRET, algorithms=[JWT_ALGORITHM]): the payload, or PyJWTError.
JwtDecode(token) ==
  IF token.form = "ok" THEN [ok |-> TRUE, sub |-> token.sub]
  ELSE [ok |-> FALSE, sub |-> None]

\* UserRepository.get_by_username: the id of the row with that username, 0 for None.
GetByUsername(username) ==
  IF \E u \in DOMAIN users : users[u].username = username
  THEN CHOOSE u \in DOMAIN users : users[u].username = username
  ELSE 0

\* UserService.get_user_by_username: UserInDB.model_validate(user), which raises on None.
GetUserByUsername(username) ==
  LET u == GetByUsername(username) IN
  IF u = 0 THEN [err |-> ValidationError, id |-> 0, row |-> [username |-> None, password_hash |-> <<>>]]
  ELSE [err |-> NoError, id |-> u, row |-> users[u]]

\* UserResponse.model_validate(user_orm): id and username, the hash is left out.
UserResponseValidate(id, row) == [id |-> id, username |-> row.username]

\* UserResponse.model_dump_json() and UserResponse.model_validate_json()
UserDumpJson(user) == <<user.id, user.username>>
UserValidateJson(js) == [id |-> js[1], username |-> js[2]]

\* UserRepository.create: look the username up, insert and commit when it is free.
Register ==
  /\ \E username \in Usernames, password \in Passwords :
       /\ Cardinality(DOMAIN users) < MaxUser
       /\ GetByUsername(username) = 0
       /\ users' = Put(users, Cardinality(DOMAIN users) + 1,
                       [username |-> username, password_hash |-> GetPasswordHash(password)])
  /\ UNCHANGED <<auth_cache, areq, heroVars, collVars, listVars, userVars, pageVars>>

\* A request with a bearer token reaches a route that depends on get_current_user.
StartAuth ==
  /\ areq.pc \in {"idle", "resolved", "rejected", "failed"}
  /\ \E token \in Tokens : areq' = [IdleAuth EXCEPT !.pc = "decode", !.token = token]
  /\ UNCHANGED <<users, auth_cache, heroVars, collVars, listVars, userVars, pageVars>>

\* _username_from_token
UsernameFromToken ==
  /\ areq.pc = "decode"
  /\ LET payload == JwtDecode(areq.token) IN
     IF ~payload.ok \/ payload.sub = None
     THEN areq' = [areq EXCEPT !.pc = "rejected", !.err = CredentialsException]
     ELSE areq' = [areq EXCEPT !.pc = "redis_get", !.username = payload.sub]
  /\ UNCHANGED <<users, auth_cache, heroVars, collVars, listVars, userVars, pageVars>>

\* get_current_user: cached = await redis.get(key); a hit is validated and returned.
AuthRedisGet ==
  /\ areq.pc = "redis_get"
  /\ IF areq.username \in DOMAIN auth_cache
     THEN areq' = [areq EXCEPT !.pc = "resolved", !.hit = TRUE,
                               !.cached = auth_cache[areq.username].json,
                               !.user = UserValidateJson(auth_cache[areq.username].json)]
     ELSE areq' = [areq EXCEPT !.pc = "db"]
  /\ UNCHANGED <<users, auth_cache, heroVars, collVars, listVars, userVars, pageVars>>

\* get_current_user: user_orm = await service.get_user_by_username(username);
\* the "user_orm is None" branch follows a call that has already raised on None.
AuthDbLookup ==
  /\ areq.pc = "db"
  /\ LET res == GetUserByUsername(areq.username) IN
     IF res.err # NoError
     THEN areq' = [areq EXCEPT !.pc = "failed", !.err = res.err, !.queries = @ + 1]
     ELSE areq' = [areq EXCEPT !.pc = "redis_set", !.queries = @ + 1,
                               !.user = UserResponseValidate(res.id, res.row)]
  /\ UNCHANGED <<users, auth_cache, heroVars, collVars, listVars, userVars, pageVars>>

\* get_current_user: await redis.set(key, user.model_dump_json(), ex=CACHE_TTL)
AuthRedisSet ==
  /\ areq.pc = "redis_set"
  /\ auth_cache' = Put(auth_cache, areq.username,
                       [json |-> UserDumpJson(areq.user), ex |-> CACHE_TTL])
  /\ areq' = [areq EXCEPT !.pc = "resolved"]
  /\ UNCHANGED <<users, heroVars, collVars, listVars, userVars, pageVars>>

\* redis drops a key whose ex seconds have passed.
ExpireAuth ==
  /\ \E k \in DOMAIN auth_cache : auth_cache' = Drop(auth_cache, k)
  /\ UNCHANGED <<users, areq, heroVars, collVars, listVars, userVars, pageVars>>

AuthStep ==
  \/ StartAuth \/ UsernameFromToken \/ AuthRedisGet \/ AuthDbLookup \/ AuthRedisSet
  \/ ExpireAuth

----------------------------------------------------------------------------
(* UserRepository.create and UserService.authenticate, one awaited call per step *)

\* What a login form can carry as password.
LoginPasswords == {"pw", "bad"}

\* verify_password: pwd_context.verify(plain_password, password_hash)
VerifyPassword(plain_password, password_hash) ==
  password_hash = GetPasswordHash(plain_password)

\* create_access_token(data={"sub": username}, ...): a JWT signed with JWT_SECRET.
CreateAccessToken(sub) == [form |-> "ok", sub |-> sub]

NoToken == [form |-> "malformed", sub |-> None]

\* UnauthorizedException(detail): HTTPException with status 401.
UnauthorizedException(detail) ==
  [type |-> "HTTPException", status_code |-> 401, detail |-> detail, headers |-> None]

\* AlreadyExistsException("Username already registered"): HTTPException with status 409.
UsernameRegistered ==
  [type |-> "HTTPException", status_code |-> 409, detail |-> "Username already registered",
   headers |-> None]

\* sqlalchemy.exc.IntegrityError raised by session.commit(); UserRepository.create
\* has no handler for it.
UserIntegrityError ==
  [type |-> "IntegrityError", status_code |-> 0, detail |-> "users.username", headers |-> None]

IdleUser ==
  [op |-> "idle", pc |-> "idle", username |-> None, password |-> None,
   existing |-> 0, id |-> 0, ret |-> NoUser, token |-> NoToken, err |-> NoError,
   verified |-> FALSE]

\* POST /auth/register enters the route; get_db has opened the session.
StartRegister(p) ==
  /\ ureq[p].pc \in {"idle", "done"}
  /\ \E username \in Usernames, password \in Passwords :
       ureq' = [ureq EXCEPT ![p] = [IdleUser EXCEPT !.op = "register", !.pc = "lookup",
                                                   !.username = username,
                                                   !.password = password]]
  /\ UNCHANGED <<authVars, heroVars, collVars, listVars, pageVars>>

\* UserRepository.create: existing_user = await self.get_by_username(...)
RegLookup(p) ==
  /\ ureq[p].pc = "lookup"
  /\ LET existing_user == GetByUsername(ureq[p].username) IN
     ureq' = [ureq EXCEPT ![p].existing = existing_user,
                          ![p].err = IF existing_user # 0 THEN UsernameRegistered ELSE NoError,
                          ![p].pc = IF existing_user # 0 THEN "rollback" ELSE "commit"]
  /\ UNCHANGED <<authVars, heroVars, collVars, listVars, pageVars>>

\* UserRepository.create: self.session.add(new_user); await self.session.commit().
\* The INSERT meets the unique index on users.username; the row is committed here.
RegCommit(p) ==
  /\ ureq[p].pc = "commit"
  /\ LET id == Cardinality(DOMAIN users) + 1 IN
     IF GetByUsername(ureq[p].username) # 0
     THEN /\ ureq' = [ureq EXCEPT ![p].err = UserIntegrityError, ![p].pc = "rollback"]
          /\ users' = users
     ELSE /\ id <= MaxUser
          /\ users' = Put(users, id,
                          [username |-> ureq[p].username,
                           password_hash |-> GetPasswordHash(ureq[p].password)])
          /\ ureq' = [ureq EXCEPT ![p].id = id, ![p].pc = "refresh"]
  /\ UNCHANGED <<auth_cache, areq, heroVars, collVars, listVars, pageVars>>

\* UserRepository.create: await self.session.refresh(new_user); create_user validates it.
RegRefresh(p) ==
  /\ ureq[p].pc = "refresh"
  /\ ureq' = [ureq EXCEPT ![p].ret = UserResponseValidate(ureq[p].id, users[ureq[p].id]),
                          ![p].pc = "exit"]
  /\ UNCHANGED <<authVars, heroVars, collVars, listVars, pageVars>>

\* UserService.authenticate without the shared message: a missing user is told apart.
AuthenticateResult_Distinct(username, password) ==
  LET user == GetByUsername(username) IN
  IF user = 0
  THEN [err |-> UnauthorizedException("User not found"), token |-> NoToken]
  ELSE IF ~VerifyPassword(password, users[user].password_hash)
  THEN [err |-> UnauthorizedException("Incorrect username or password"), token |-> NoToken]
  ELSE [err |-> NoError, token |-> CreateAccessToken(users[user].username)]

\* UserService.authenticate: get_by_username, then
\* "if not user or not verify_password(...)": one UnauthorizedException for both.
AuthenticateResult(username, password) ==
  LET user == GetByUsername(username) IN
  IF user = 0 \/ ~VerifyPassword(password, users[user].password_hash)
  THEN [err |-> UnauthorizedException("Incorrect username or password"), token |-> NoToken]
  ELSE [err |-> NoError, token |-> CreateAccessToken(users[user].username)]

\* POST /auth/login enters the route with the form's username and password.
StartLogin(p) ==
  /\ ureq[p].pc \in {"idle", "done"}
  /\ \E username \in Usernames, password \in LoginPasswords :
       ureq' = [ureq EXCEPT ![p] = [IdleUser EXCEPT !.op = "login", !.pc = "authenticate",
                                                   !.username = username,
                                                   !.password = password]]
  /\ UNCHANGED <<authVars, heroVars, collVars, listVars, pageVars>>

\* UserService.authenticate(login_data)
Authenticate(p) ==
  /\ ureq[p].pc = "authenticate"
  /\ LET res == AuthenticateResult(ureq[p].username, ureq[p].password)
         user == GetByUsername(ureq[p].username)
     IN
     ureq' = [ureq EXCEPT ![p].existing = user,
                          ![p].verified = (user # 0),
                          ![p].err = res.err,
                          ![p].token = res.token,
                          ![p].pc = IF res.err = NoError THEN "exit" ELSE "rollback"]
  /\ UNCHANGED <<authVars, heroVars, collVars, listVars, pageVars>>

\* get_db: the route returned or raised; session.begin() commits or rolls back what
\* the session still holds, which is nothing after the repository's own commit.
UserExit(p) ==
  /\ ureq[p].pc \in {"exit", "rollback"}
  /\ ureq' = [ureq EXCEPT ![p].pc = "done"]
  /\ UNCHANGED <<authVars, heroVars, collVars, listVars, pageVars>>

----------------------------------------------------------------------------
(* Collections: the table, its constraints, and the two repository classes *)

Titles == {"Favs", "Best"}
Descriptions == {None, "my list"}

\* CollectionCreate: title is a required string, description is optional.
CollectionCreateInputs == [title : Titles, description : Descriptions]

\* CollectionUpdate: title and description each unset, None, or a string.
CollectionUpdateInputs ==
  { [title |-> Unset,  description |-> Unset],
    [title |-> "Best", description |-> Unset],
    [title |-> "Favs", description |-> Unset],
    [title |-> None,   description |-> Unset],
    [title |-> Unset,  description |-> "my list"],
    [title |-> Unset,  description |-> None],
    [title |-> "Best", description |-> "my list"] }

NoColl == [id |-> 0, title |-> None, description |-> None, user_id |-> 0]
NoCollInput == [title |-> Unset, description |-> Unset]

\* The ORM object of row id.
CollObj(id) ==
  [id |-> id, title |-> collections[id].title,
   description |-> collections[id].description, user_id |-> collections[id].user_id]

NoLast ==
  [op |-> "none", repo |-> "none", user |-> 0, id |-> 0, hero_id |-> 0,
   obj_in |-> NoCollInput, err |-> "none", ret |-> NoColl, flushed |-> FALSE,
   cascaded |-> {}]

\* The repository classes of the source that can stand behind the proxy for Collection:
\* CollectionRepository (what get_collection_service wires) and the generic
\* RepositoryBase[Collection]; the proxy calls whatever object it was given.
RepoClasses == {"CollectionRepository", "RepositoryBase"}

\* The methods each class has, with the keyword arguments each accepts.
Signature(repo, method) ==
  CASE repo = "RepositoryBase" /\ method = "get" -> {"id"}
    [] repo = "RepositoryBase" /\ method = "create" -> {"obj_in"}
    [] repo = "RepositoryBase" /\ method = "update" -> {"db_obj", "obj_in"}
    [] repo = "RepositoryBase" /\ method = "delete" -> {"id"}
    [] repo = "RepositoryBase" /\ method = "get_list" ->
         {"limit", "offset", "search", "search_fields", "order_by", "**filters"}
    [] repo = "CollectionRepository" /\ method = "create" -> {"obj_create", "current_user"}
    [] repo = "CollectionRepository" /\ method = "update" -> {"obj_update", "obj_id", "current_user"}
    [] repo = "CollectionRepository" /\ method = "delete" -> {"obj_id", "current_user"}
    [] repo = "CollectionRepository" /\ method = "add_hero" -> {"collection_id", "hero_id"}
    [] OTHER -> {"<no such attribute>"}

\* Calling repo.method(**kwargs): AttributeError without the method, TypeError when
\* the keywords are not the ones it takes, otherwise the call goes through.
Call(repo, method, kwargs) ==
  IF Signature(repo, method) = {"<no such attribute>"} THEN "AttributeError"
  ELSE IF kwargs # Signature(repo, method) THEN "TypeError"
  ELSE "none"

\* NOT NULL on collections.title and collections.user_id.
CollNotNull(row) == row.title # None /\ row.user_id # 0

\* The constraint declared on title alone: UniqueConstraint("title").
CollTitleTaken_AnyOwner(id, row) ==
  \E c \in DOMAIN collections : c # id /\ collections[c].title = row.title

\* UniqueConstraint("title", "user_id"), seen by a statement writing row to id.
CollTitleTaken(id, row) ==
  \E c \in DOMAIN collections :
     c # id /\ collections[c].title = row.title /\ collections[c].user_id = row.user_id

\* ForeignKey("users.id") on collections.user_id.
CollOwnerExists(row) == row.user_id \in DOMAIN users

\* The row the INSERT or UPDATE would leave is accepted by the table's constraints.
CollIntegrity(id, row) ==
  CollNotNull(row) /\ ~CollTitleTaken(id, row) /\ CollOwnerExists(row)

\* The primary key and both foreign keys of collection_hero, seen by an INSERT.
JoinIntegrity(collection_id, hero_id) ==
  /\ <<collection_id, hero_id>> \notin collection_hero
  /\ collection_id \in DOMAIN collections
  /\ hero_id \in DOMAIN heroes

\* An update that also hands the collection to the first user.
SetAttrs_Owner(obj, obj_in) ==
  [f \in DOMAIN obj |->
     IF f \in ModelDumpExcludeUnset(obj_in) THEN obj_in[f]
     ELSE IF f = "user_id" THEN 1 ELSE obj[f]]

\* setattr(obj, key, value) for every field that was sent.
SetAttrs(obj, obj_in) ==
  [f \in DOMAIN obj |->
     IF f \in ModelDumpExcludeUnset(obj_in) THEN obj_in[f] ELSE obj[f]]

RowOf(obj) == [title |-> obj.title, description |-> obj.description, user_id |-> obj.user_id]

\* session.delete(obj) without the DELETE on the secondary table.
DeleteCollectionRows_Keep(id) == collection_hero

\* Deleting a Collection through the session also deletes its rows of the
\* secondary table of relationship "heroes" (recorded as cascaded).
DeleteCollectionRows(id) == {p \in collection_hero : p[1] # id}

\* _OwnerScopedRepo.get without the ownership test: the object is returned to anyone.
NotOwner_Never(db_obj, user) == FALSE

\* The ownership test of _OwnerScopedRepo.get: db_obj.user_id != self._user.id
NotOwner(db_obj, user) == db_obj.user_id # user

\* What one operation did to storage and what it answered.
\* Collection requests are served one at a time, with no hero request in flight;
\* the finished hero tasks are gone.
Outcome(colls, seq, joins, record) ==
  /\ \A r \in Reqs : req[r].pc \in {"idle", "done"}
  /\ collections' = colls
  /\ coll_seq' = seq
  /\ collection_hero' = joins
  /\ last' = record
  /\ req' = [r \in Reqs |-> IdleReq]
  /\ UNCHANGED <<users, auth_cache, areq, heroes, hero_seq, cache, staleG, listVars, userVars, pageVars>>

Fail(record, err) ==
  Outcome(collections, coll_seq, collection_hero, [record EXCEPT !.err = err])

----------------------------------------------------------------------------
(* CollectionRepository: every method commits (or rolls back) by itself *)

\* CollectionRepository.create(obj_create, current_user=...)
CollCreate ==
  \E u \in DOMAIN users, obj_create \in CollectionCreateInputs :
    LET rec == [NoLast EXCEPT !.op = "create", !.repo = "CollectionRepository",
                              !.user = u, !.obj_in = obj_create]
        row == [title |-> obj_create.title, description |-> obj_create.description,
                user_id |-> u]
        id == coll_seq + 1
    IN
    /\ coll_seq < MaxColl \/ ~CollIntegrity(id, row)
    /\ IF CollIntegrity(id, row)
       THEN Outcome(Put(collections, id, row), id, collection_hero,
                    [rec EXCEPT !.id = id, !.flushed = TRUE,
                                !.ret = [id |-> id, title |-> row.title,
                                         description |-> row.description, user_id |-> u]])
       ELSE Fail([rec EXCEPT !.flushed = TRUE], "AlreadyExists")

\* CollectionRepository.get_by_id(obj_id, current_user=...)
CollGetById ==
  \E u \in DOMAIN users, id \in 1..MaxColl :
    LET rec == [NoLast EXCEPT !.op = "get", !.repo = "CollectionRepository",
                              !.user = u, !.id = id]
    IN
    IF id \in DOMAIN collections /\ collections[id].user_id = u
    THEN Outcome(collections, coll_seq, collection_hero, [rec EXCEPT !.ret = CollObj(id)])
    ELSE Fail(rec, "NotFound")

\* CollectionRepository.update(obj_update, obj_id, current_user=...)
CollUpdate ==
  \E u \in DOMAIN users, id \in 1..MaxColl, obj_update \in CollectionUpdateInputs :
    LET rec == [NoLast EXCEPT !.op = "update", !.repo = "CollectionRepository",
                              !.user = u, !.id = id, !.obj_in = obj_update]
    IN
    IF ~(id \in DOMAIN collections /\ collections[id].user_id = u)
    THEN Fail(rec, "NotFound")
    ELSE IF ModelDumpExcludeUnset(obj_update) = {}
    THEN Fail(rec, "ValueError")
    ELSE LET obj == SetAttrs(CollObj(id), obj_update) IN
         IF CollIntegrity(id, RowOf(obj))
         THEN Outcome(Put(collections, id, RowOf(obj)), coll_seq, collection_hero,
                      [rec EXCEPT !.ret = obj, !.flushed = TRUE])
         ELSE Fail([rec EXCEPT !.flushed = TRUE], "IntegrityError")

\* CollectionRepository.delete(obj_id, current_user=...)
CollDelete ==
  \E u \in DOMAIN users, id \in 1..MaxColl :
    LET rec == [NoLast EXCEPT !.op = "delete", !.repo = "CollectionRepository",
                              !.user = u, !.id = id]
    IN
    IF ~(id \in DOMAIN collections /\ collections[id].user_id = u)
    THEN Fail(rec, "NotFound")
    ELSE Outcome(Drop(collections, id), coll_seq, DeleteCollectionRows(id),
                 [rec EXCEPT !.flushed = TRUE,
                             !.cascaded = collection_hero \ DeleteCollectionRows(id)])

\* CollectionRepository.add_hero(collection_id, hero_id): no principal is involved.
CollAddHero ==
  \E id \in 1..MaxColl, hero_id \in HeroIds :
    LET rec == [NoLast EXCEPT !.op = "add_hero", !.repo = "CollectionRepository",
                              !.id = id, !.hero_id = hero_id]
    IN
    IF JoinIntegrity(id, hero_id)
    THEN Outcome(collections, coll_seq, collection_hero \cup {<<id, hero_id>>},
                 [rec EXCEPT !.flushed = TRUE])
    ELSE Fail([rec EXCEPT !.flushed = TRUE], "AlreadyExists")

----------------------------------------------------------------------------
(* _OwnerScopedRepo over a repository; get_db commits or rolls back the request *)

\* _OwnerScopedRepo.get: the repository's get, then the ownership test.
ScopedGetResult(repo, user, id) ==
  IF Call(repo, "get", {"id"}) # "none" THEN [err |-> Call(repo, "get", {"id"}), obj |-> NoColl]
  ELSE IF id \notin DOMAIN collections THEN [err |-> "NotFound", obj |-> NoColl]
  ELSE IF NotOwner(CollObj(id), user) THEN [err |-> "Forbidden", obj |-> NoColl]
  ELSE [err |-> "none", obj |-> CollObj(id)]

\* _OwnerScopedRepo.create: self._repo.create(obj_in=obj_in, user_id=self._user.id)
ScopedCreate ==
  \E repo \in RepoClasses, u \in DOMAIN users, obj_in \in CollectionCreateInputs :
    LET rec == [NoLast EXCEPT !.op = "scoped_create", !.repo = repo, !.user = u,
                              !.obj_in = obj_in]
        call == Call(repo, "create", {"obj_in", "user_id"})
        row == [title |-> obj_in.title, description |-> obj_in.description, user_id |-> u]
        id == coll_seq + 1
    IN
    /\ coll_seq < MaxColl
    /\ IF call # "none" THEN Fail(rec, call)
       ELSE IF CollIntegrity(id, row)
       THEN Outcome(Put(collections, id, row), id, collection_hero,
                    [rec EXCEPT !.id = id, !.flushed = TRUE,
                                !.ret = [id |-> id, title |-> row.title,
                                         description |-> row.description, user_id |-> u]])
       ELSE Fail([rec EXCEPT !.flushed = TRUE], "AlreadyExists")

\* _OwnerScopedRepo.get
ScopedGet ==
  \E repo \in RepoClasses, u \in DOMAIN users, id \in 1..MaxColl :
    LET rec == [NoLast EXCEPT !.op = "scoped_get", !.repo = repo, !.user = u, !.id = id]
        got == ScopedGetResult(repo, u, id)
    IN
    IF got.err # "none" THEN Fail(rec, got.err)
    ELSE Outcome(collections, coll_seq, collection_hero, [rec EXCEPT !.ret = got.obj])

\* _OwnerScopedRepo.update: self.get, then self._repo.update(db_obj=db_obj, obj_in=obj_in),
\* which is RepositoryBase.update when the repository has that signature.
ScopedUpdate ==
  \E repo \in RepoClasses, u \in DOMAIN users, id \in 1..MaxColl,
     obj_in \in CollectionUpdateInputs :
    LET rec == [NoLast EXCEPT !.op = "scoped_update", !.repo = repo, !.user = u,
                              !.id = id, !.obj_in = obj_in]
        got == ScopedGetResult(repo, u, id)
        call == Call(repo, "update", {"db_obj", "obj_in"})
        obj == SetAttrs(got.obj, obj_in)
    IN
    IF got.err # "none" THEN Fail(rec, got.err)
    ELSE IF call # "none" THEN Fail(rec, call)
    ELSE IF ModelDumpExcludeUnset(obj_in) = {}
    THEN Outcome(collections, coll_seq, collection_hero, [rec EXCEPT !.ret = got.obj])
    ELSE IF CollIntegrity(id, RowOf(obj))
    THEN Outcome(Put(collections, id, RowOf(obj)), coll_seq, collection_hero,
                 [rec EXCEPT !.ret = obj, !.flushed = TRUE])
    ELSE Fail([rec EXCEPT !.flushed = TRUE], "IntegrityError")

\* _OwnerScopedRepo.delete: self.get, then self._repo.delete(id=id)
ScopedDelete ==
  \E repo \in RepoClasses, u \in DOMAIN users, id \in 1..MaxColl :
    LET rec == [NoLast EXCEPT !.op = "scoped_delete", !.repo = repo, !.user = u, !.id = id]
        got == ScopedGetResult(repo, u, id)
        call == Call(repo, "delete", {"id"})
    IN
    IF got.err # "none" THEN Fail(rec, got.err)
    ELSE IF call # "none" THEN Fail(rec, call)
    ELSE Outcome(Drop(collections, id), coll_seq, DeleteCollectionRows(id),
                 [rec EXCEPT !.flushed = TRUE,
                             !.cascaded = collection_hero \ DeleteCollectionRows(id)])

\* _OwnerScopedRepo.add_hero: self.get, then self._repo.add_hero(collection_id=..., hero_id=...)
ScopedAddHero ==
  \E repo \in RepoClasses, u \in DOMAIN users, id \in 1..MaxColl, hero_id \in HeroIds :
    LET rec == [NoLast EXCEPT !.op = "scoped_add_hero", !.repo = repo, !.user = u,
                              !.id = id, !.hero_id = hero_id]
        got == ScopedGetResult(repo, u, id)
        call == Call(repo, "add_hero", {"collection_id", "hero_id"})
    IN
    IF got.err # "none" THEN Fail(rec, got.err)
    ELSE IF call # "none" THEN Fail(rec, call)
    ELSE IF JoinIntegrity(id, hero_id)
    THEN Outcome(collections, coll_seq, collection_hero \cup {<<id, hero_id>>},
                 [rec EXCEPT !.flushed = TRUE])
    ELSE Fail([rec EXCEPT !.flushed = TRUE], "AlreadyExists")

----------------------------------------------------------------------------
(* Listing: RepositoryBase.get_list and CollectionRepository.get_all *)

\* An optional integer argument (int | None): absent, or a value.
Nothing == << >>
Some(x) == <<x>>

\* The characters of the strings that occur in the rows and the search arguments.
Chars(s) ==
  CASE s = "Batman"     -> <<"B", "a", "t", "m", "a", "n">>
    [] s = "Superman"   -> <<"S", "u", "p", "e", "r", "m", "a", "n">>
    [] s = "Robin"      -> <<"R", "o", "b", "i", "n">>
    [] s = "bat-signal" -> <<"b", "a", "t", "-", "s", "i", "g", "n", "a", "l">>
    [] s = "dark"       -> <<"d", "a", "r", "k">>
    [] s = "kal"        -> <<"k", "a", "l">>
    [] s = "cave"       -> <<"c", "a", "v", "e">>
    [] s = "fly"        -> <<"f", "l", "y">>
    [] s = "Favs"       -> <<"F", "a", "v", "s">>
    [] s = "Best"       -> <<"B", "e", "s", "t">>
    [] s = "my list"    -> <<"m", "y", " ", "l", "i", "s", "t">>
    [] s = "bat"        -> <<"b", "a", "t">>
    [] s = "BAT"        -> <<"B", "A", "T">>
    [] s = "fav"        -> <<"f", "a", "v">>
    [] s = "_"          -> <<"_">>
    [] s = "zz"         -> <<"z", "z">>
    [] s = ""           -> << >>

\* The position of a string in the collation of the database (ascending order).
Rank(s) ==
  CASE s = "Batman" -> 1 [] s = "Robin" -> 2 [] s = "Superman" -> 3
    [] s = "bat-signal" -> 1 [] s = "cave" -> 2 [] s = "dark" -> 3 [] s = "kal" -> 4
    [] s = "Best" -> 1 [] s = "Favs" -> 2

\* Case folding of ILIKE, one character.
Lower(c) ==
  CASE c = "A" -> "a" [] c = "B" -> "b" [] c = "F" -> "f" [] c = "R" -> "r"
    [] c = "S" -> "s" [] c = "T" -> "t" [] OTHER -> c

LowerSeq(cs) == [i \in 1..Len(cs) |-> Lower(cs[i])]

\* SQL LIKE: % matches any run of characters, _ matches any one character, every
\* other character matches itself (no string here holds the escape character).
RECURSIVE Like(_, _)
Like(pattern, text) ==
  IF pattern = << >> THEN text = << >>
  ELSE IF Head(pattern) = "%"
       THEN Like(Tail(pattern), text) \/ (text # << >> /\ Like(pattern, Tail(text)))
  ELSE /\ text # << >>
       /\ (Head(pattern) = "_" \/ Head(pattern) = Head(text))
       /\ Like(Tail(pattern), Tail(text))

\* column.ilike(f"%{search}%"): NULL never matches.
ILike(value, search) ==
  /\ value # None
  /\ Like(<<"%">> \o LowerSeq(Chars(search)) \o <<"%">>, LowerSeq(Chars(value)))

\* The mapped columns of a model, and what else hasattr(model, name) finds on the
\* class: its methods and the declarative attributes, none of them a column.
Columns(model) ==
  IF model = "Hero" THEN {"id", "name", "alias", "powers"}
  ELSE {"id", "title", "description", "user_id"}

ClassAttrs(model) == {"__init__", "metadata"}

HasAttr(model, name) == name \in Columns(model) \cup ClassAttrs(model)

\* getattr(row, column)
Field(table, id, column) == IF column = "id" THEN id ELSE table[id][column]

\* One order_by entry: the number of leading "-" and the rest of the string.
Entry(dashes, rest) == [dashes |-> dashes, rest |-> rest]

\* is_desc = field.startswith("-"); field_name = field.lstrip("-")
IsDesc(entry) == entry.dashes > 0
FieldName(entry) == entry.rest

\* The entries of order_by the loop keeps: those naming an attribute of the model.
OrderingEntries(model, order_by) ==
  SelectSeq(order_by, LAMBDA e : HasAttr(model, FieldName(e)))

\* desc(column) / asc(column) raise ArgumentError for an attribute that is not a column.
OrderingFails(model, order_by) ==
  \E i \in 1..Len(order_by) :
     /\ HasAttr(model, FieldName(order_by[i]))
     /\ FieldName(order_by[i]) \notin Columns(model)

\* The value a row is sorted by on a column: integers as they are, strings by collation.
SortKey(table, id, column) ==
  IF column \in {"id", "user_id"} THEN Field(table, id, column)
  ELSE Rank(Field(table, id, column))

\* Row x must come before row y under ORDER BY clauses (left to right).
Before(table, clauses, x, y) ==
  \E k \in 1..Len(clauses) :
     /\ \A m \in 1..(k - 1) :
          SortKey(table, x, clauses[m].column) = SortKey(table, y, clauses[m].column)
     /\ IF clauses[k].desc
        THEN SortKey(table, x, clauses[k].column) > SortKey(table, y, clauses[k].column)
        ELSE SortKey(table, x, clauses[k].column) < SortKey(table, y, clauses[k].column)

\* Every order the database may return the rows ids in: any order that respects the
\* ORDER BY clauses; rows equal on all of them, or all rows when there is no clause,
\* come in whatever order the executor produces.
Orders(table, ids, clauses) ==
  {q \in [1..Cardinality(ids) -> ids] :
     /\ \A i, j \in 1..Cardinality(ids) : i # j => q[i] # q[j]
     /\ \A i, j \in 1..Cardinality(ids) : i < j => ~Before(table, clauses, q[j], q[i])}

\* query.offset(offset) when given, query.limit(limit) when given.
Page(q, limit, offset) ==
  LET skip == IF offset = Nothing THEN 0 ELSE offset[1]
      rest == IF skip >= Len(q) THEN << >> ELSE SubSeq(q, skip + 1, Len(q))
      size == IF limit = Nothing \/ limit[1] >= Len(rest) THEN Len(rest) ELSE limit[1]
  IN SubSeq(rest, 1, size)

\* The ORDER BY clauses built from the kept entries.
Clauses(model, order_by) ==
  LET kept == OrderingEntries(model, order_by) IN
  [i \in 1..Len(kept) |-> [column |-> FieldName(kept[i]), desc |-> IsDesc(kept[i])]]

\* The rows selected by filter_by(**filters) and the search clause of get_list.
Selected(table, model, user_id, search, search_fields) ==
  LET fields == {f \in search_fields : HasAttr(model, f)} IN
  {id \in DOMAIN table :
     /\ user_id = Nothing \/ table[id].user_id = user_id[1]
     /\ (search \notin {None, ""} /\ search_fields # {} /\ fields # {})
          => \E f \in fields : ILike(Field(table, id, f), search)}

NoResult == [err |-> "none", total |-> 0, items |-> << >>]

\* RepositoryBase.get_list: every (total, items) it may return, or the error it raises.
\* The count is taken before offset and limit are applied.
GetListResults(table, model, rq, user_id, search_fields) ==
  IF OrderingFails(model, rq.order_by)
  THEN {[NoResult EXCEPT !.err = "ArgumentError"]}
  ELSE LET ids == Selected(table, model, user_id, rq.search, search_fields) IN
       {[err |-> "none", total |-> Cardinality(ids),
         items |-> Page(q, rq.limit, rq.offset)] :
          q \in Orders(table, ids, Clauses(model, rq.order_by))}

\* CollectionRepository.get_all: the rows of current_user, searched on title and
\* description, ordered with id ASC appended; only the items are returned.
GetAllResults(table, rq) ==
  IF OrderingFails("Collection", rq.order_by)
  THEN {[NoResult EXCEPT !.err = "ArgumentError"]}
  ELSE LET ids == {id \in Selected(table, "Collection", Some(rq.user), None, {}) :
                     rq.search \notin {None, ""}
                       => \/ ILike(table[id].title, rq.search)
                          \/ ILike(table[id].description, rq.search)}
           clauses == Clauses("Collection", rq.order_by)
                        \o <<[column |-> "id", desc |-> FALSE]>>
       IN {[err |-> "none", total |-> 0, items |-> Page(q, rq.limit, rq.offset)] :
             q \in Orders(table, ids, clauses)}

NoRequest ==
  [via |-> "none", repo |-> "none", user |-> 0, user_id |-> Nothing, limit |-> Nothing,
   offset |-> Nothing, search |-> None, order_by |-> << >>]

\* No list request yet: n counts the executions of the request.
NoListing == [request |-> NoRequest, n |-> 0, first |-> NoResult, second |-> NoResult]

\* One more execution of the list request, answering with result.
Executed(result) ==
  /\ listing.n < 2
  /\ listing' = IF listing.n = 0
                THEN [listing EXCEPT !.n = 1, !.first = result]
                ELSE [listing EXCEPT !.n = 2, !.second = result]

\* HeroRepository.get_list: RepositoryBase.get_list with the search fields of Hero.
GetList ==
  /\ listing.request.via = "get_list"
  /\ \E result \in GetListResults(heroes, "Hero", listing.request, Nothing,
                                  {"name", "alias", "powers"}) :
       Executed(result)
  /\ UNCHANGED <<heroVars, authVars, collVars, userVars, pageVars>>

\* list_heroes of new_hero_route.py, page after page: offset = (page - 1) * size,
\* then HeroService.get_heroes and HeroRepository.get_list; the n-th execution
\* asks for page n + 1.
GetListPage ==
  /\ listing.request.via = "get_list_pages"
  /\ LET page == listing.n + 1
         size == listing.request.limit[1]
         rq == [listing.request EXCEPT !.offset = Some((page - 1) * size)]
     IN \E result \in GetListResults(heroes, "Hero", rq, Nothing,
                                     {"name", "alias", "powers"}) :
          Executed(result)
  /\ UNCHANGED <<heroVars, authVars, collVars, userVars, pageVars>>

\* kwargs.setdefault("user_id", ...): a user_id the caller passed is kept.
ScopedFilter_SetDefault(rq) ==
  IF rq.user_id = Nothing THEN Some(rq.user) ELSE rq.user_id

\* _OwnerScopedRepo.get_list: kwargs["user_id"] = self._user.id
ScopedFilter(rq) == Some(rq.user)

\* _OwnerScopedRepo.get_list: self._repo.get_list(**kwargs). CollectionService passes
\* limit, offset, search and order_by; no search_fields reach RepositoryBase.get_list.
ScopedGetList ==
  /\ listing.request.via = "scoped_get_list"
  /\ IF Signature(listing.request.repo, "get_list") = {"<no such attribute>"}
     THEN Executed([NoResult EXCEPT !.err = "AttributeError"])
     ELSE \E result \in GetListResults(collections, "Collection", listing.request,
                                       ScopedFilter(listing.request), {}) :
            Executed(result)
  /\ UNCHANGED <<heroVars, authVars, collVars, userVars, pageVars>>

\* CollectionRepository.get_all(search=, order_by=, limit=, offset=, current_user=)
GetAll ==
  /\ listing.request.via = "get_all"
  /\ \E result \in GetAllResults(collections, listing.request) : Executed(result)
  /\ UNCHANGED <<heroVars, authVars, collVars, userVars, pageVars>>

----------------------------------------------------------------------------
(* The pagination envelopes: HeroService.get_heroes / CollectionService.get_collections
   (PaginationInfo) and the list_heroes route of heroes_route.py (Pagination) *)

\* math.ceil(total / size) for total >= 0 and size > 0.
MathCeil(total, size) == (total + size - 1) \div size

\* PaginationInfo(total=, page=, size=, pages=): page >= 1, size >= 1, pages >= 0.
PaginationInfo(total, page, size, pages) ==
  IF page >= 1 /\ size >= 1 /\ pages >= 0
  THEN [err |-> "none", pagination |-> Some([total |-> total, page |-> page,
                                             size |-> size, pages |-> pages])]
  ELSE [err |-> "ValidationError", pagination |-> Nothing]

\* get_heroes / get_collections, step 3: nothing when limit or offset is absent;
\* otherwise page = offset // size + 1 (before any test of size), then
\* pages = math.ceil(total / size) if size > 0 else 0, then PaginationInfo(...).
AssemblePagination(total, limit, offset) ==
  IF limit = Nothing \/ offset = Nothing
  THEN [err |-> "none", pagination |-> Nothing]
  ELSE LET size == limit[1] IN
       IF size = 0
       THEN [err |-> "ZeroDivisionError", pagination |-> Nothing]
       ELSE PaginationInfo(total, offset[1] \div size + 1, size,
                           IF size > 0 THEN MathCeil(total, size) ELSE 0)

\* list_heroes: total_pages = (total + limit - 1) // limit
TotalPages(total, limit) == (total + limit - 1) \div limit

\* list_heroes with hasMore = page <= total_pages.
HasMore_Inclusive(page, total_pages) == page <= total_pages

\* list_heroes: hasMore = page < total_pages
HasMore(page, total_pages) == page < total_pages

\* list_heroes: previousPage = page - 1 if page > 1 else None
PreviousPage(page) == IF page > 1 THEN Some(page - 1) ELSE Nothing

\* list_heroes: nextPage = page + 1 if page < total_pages else None
NextPage(page, total_pages) == IF page < total_pages THEN Some(page + 1) ELSE Nothing

\* list_heroes: Pagination(currentPage=, totalPages=, totalItems=, limit=, hasMore=, ...)
Pagination(page, limit, total) ==
  LET total_pages == TotalPages(total, limit) IN
  [currentPage |-> page, totalPages |-> total_pages, totalItems |-> total,
   limit |-> limit, hasMore |-> HasMore(page, total_pages),
   previousPage |-> PreviousPage(page), nextPage |-> NextPage(page, total_pages)]

NoPagination ==
  [currentPage |-> 0, totalPages |-> 0, totalItems |-> 0, limit |-> 0, hasMore |-> FALSE,
   previousPage |-> Nothing, nextPage |-> Nothing]

\* No envelope asked for yet.
NoEnvelope ==
  [via |-> "none", total |-> 0, limit |-> Nothing, offset |-> Nothing, page |-> 0,
   done |-> FALSE, err |-> "none", info |-> Nothing, pagination |-> NoPagination]

\* HeroService.get_heroes / CollectionService.get_collections assemble the envelope
\* from the total the repository returned and the limit and offset they were given.
GetHeroesEnvelope ==
  /\ envelope.via = "service"
  /\ ~envelope.done
  /\ LET res == AssemblePagination(envelope.total, envelope.limit, envelope.offset) IN
     envelope' = [envelope EXCEPT !.done = TRUE, !.err = res.err, !.info = res.pagination]
  /\ UNCHANGED <<heroVars, authVars, collVars, listVars, userVars>>

\* list_heroes of heroes_route.py: offset = (page - 1) * limit, then the envelope.
ListHeroesEnvelope ==
  /\ envelope.via = "route"
  /\ ~envelope.done
  /\ envelope' = [envelope EXCEPT
                    !.done = TRUE,
                    !.offset = Some((envelope.page - 1) * envelope.limit[1]),
                    !.pagination = Pagination(envelope.page, envelope.limit[1],
                                              envelope.total)]
  /\ UNCHANGED <<heroVars, authVars, collVars, listVars, userVars>>

\* Hero requests served one after the other, over every input of the schemas.
NextHero ==
  \/ CreateHero(1, HeroCreateInputs)
  \/ GetHero(1, HeroIds)
  \/ UpdateHero(1, HeroIds, HeroUpdateInputs)
  \/ DeleteHero(1, HeroIds)
  \/ HeroStep(1, FALSE)
  \/ Expire

\* After lifespan startup: empty tables, empty redis databases, no request in flight.
Init ==
  /\ heroes = << >>
  /\ hero_seq = 0
  /\ cache = << >>
  /\ req = [r \in Reqs |-> IdleReq]
  /\ staleG = << >>
  /\ users = << >>
  /\ auth_cache = << >>
  /\ areq = IdleAuth
  /\ collections = << >>
  /\ coll_seq = 0
  /\ collection_hero = {}
  /\ last = NoLast
  /\ listing = NoListing
  /\ ureq = [r \in Reqs |-> IdleUser]
  /\ envelope = NoEnvelope

SpecHero == Init /\ [][NextHero]_vars

\* Concurrent hero requests on hero 1 against the shared cache and storage.
RaceCreateInputs == {[name |-> "a", alias |-> "x", powers |-> None]}
RaceUpdateInputs == {[name |-> "b", alias |-> Unset, powers |-> Unset]}

NextRace ==
  \/ \E r \in Reqs :
       \/ CreateHero(r, RaceCreateInputs)
       \/ GetHero(r, {1})
       \/ UpdateHero(r, {1}, RaceUpdateInputs)
       \/ DeleteHero(r, {1})
       \/ HeroStep(r, TRUE)
  \/ Expire

SpecRace == Init /\ [][NextRace]_vars

\* The same concurrent requests, where the cache call after a write may fail and
\* the request's transaction is then rolled back.
NextTx ==
  \/ \E r \in Reqs :
       \/ CreateHero(r, RaceCreateInputs)
       \/ GetHero(r, {1})
       \/ UpdateHero(r, {1}, RaceUpdateInputs)
       \/ DeleteHero(r, {1})
       \/ HeroStep(r, TRUE)
       \/ InvalidateFails(r)
  \/ Expire

SpecTx == Init /\ [][NextTx]_vars

\* Registration and token validation.
NextAuth == Register \/ AuthStep

SpecAuth == Init /\ [][NextAuth]_vars

\* Registration and login requests of two clients, interleaved at every await.
NextUsers ==
  \E p \in Reqs :
    \/ StartRegister(p) \/ RegLookup(p) \/ RegCommit(p) \/ RegRefresh(p)
    \/ StartLogin(p) \/ Authenticate(p)
    \/ UserExit(p)

SpecUsers == Init /\ [][NextUsers]_vars

\* Both cache-aside instances: hero requests one after the other, and token validation.
NextCacheAside ==
  \/ CreateHero(1, RaceCreateInputs)
  \/ GetHero(1, HeroIds)
  \/ UpdateHero(1, HeroIds, RaceUpdateInputs)
  \/ DeleteHero(1, HeroIds)
  \/ HeroStep(1, FALSE)
  \/ Expire
  \/ Register
  \/ AuthStep

SpecCacheAside == Init /\ [][NextCacheAside]_vars

\* Two registered users; nothing else stored yet.
InitColl ==
  /\ heroes = << >>
  /\ hero_seq = 0
  /\ cache = << >>
  /\ req = [r \in Reqs |-> IdleReq]
  /\ staleG = << >>
  /\ users = <<[username |-> "alice", password_hash |-> GetPasswordHash("pw")],
               [username |-> "bob", password_hash |-> GetPasswordHash("pw")]>>
  /\ auth_cache = << >>
  /\ areq = IdleAuth
  /\ collections = << >>
  /\ coll_seq = 0
  /\ collection_hero = {}
  /\ last = NoLast
  /\ listing = NoListing
  /\ ureq = [r \in Reqs |-> IdleUser]
  /\ envelope = NoEnvelope

\* Collections: one hero may be created; the methods of CollectionRepository and
\* the operations of the scoping proxy, one request after the other.
CollHeroInputs == {[name |-> "a", alias |-> "x", powers |-> None]}

NextColl ==
  \/ CreateHero(1, CollHeroInputs) \/ CreateFlush(1) \/ Commit(1, FALSE) \/ Rollback(1)
  \/ CollCreate \/ CollGetById \/ CollUpdate \/ CollDelete \/ CollAddHero
  \/ ScopedCreate \/ ScopedGet \/ ScopedUpdate \/ ScopedDelete \/ ScopedAddHero

SpecColl == InitColl /\ [][NextColl]_vars

\* Creation only: heroes over every HeroCreate input, collections of two users.
NextCreate ==
  \/ CreateHero(1, HeroCreateInputs) \/ CreateFlush(1) \/ Commit(1, FALSE) \/ Rollback(1)
  \/ CollCreate \/ ScopedCreate

SpecCreate == InitColl /\ [][NextCreate]_vars

\* The join table: heroes created and deleted, collections created and deleted,
\* heroes attached, directly and through the proxy.
NextJoin ==
  \/ CreateHero(1, CollHeroInputs) \/ DeleteHero(1, HeroIds)
  \/ CreateFlush(1) \/ DelGet(1) \/ DelFlush(1) \/ Invalidate(1)
  \/ Commit(1, FALSE) \/ Rollback(1)
  \/ CollCreate \/ CollDelete \/ CollAddHero \/ ScopedDelete \/ ScopedAddHero

SpecJoin == InitColl /\ [][NextJoin]_vars

\* The rows and the arguments list requests are tried on.
MaxRows == 3

HeroListRows ==
  { [name |-> "Batman",   alias |-> "dark",       powers |-> None],
    [name |-> "Superman", alias |-> "kal",        powers |-> "fly"],
    [name |-> "Robin",    alias |-> "bat-signal", powers |-> None],
    [name |-> "Batman",   alias |-> "cave",       powers |-> "fly"] }

CollectionListRows ==
  { [title |-> "Favs", description |-> None,      user_id |-> 1],
    [title |-> "Best", description |-> "my list", user_id |-> 1],
    [title |-> "Favs", description |-> "my list", user_id |-> 2],
    [title |-> "Best", description |-> None,      user_id |-> 2] }

\* The tables of at most MaxRows different rows, ids 1..n.
Tables(rows) ==
  UNION {{t \in [1..n -> rows] : \A i, j \in 1..n : i # j => t[i] # t[j]} : n \in 0..MaxRows}

HeroOrderBys ==
  { << >>,
    <<Entry(0, "name")>>,
    <<Entry(1, "name")>>,
    <<Entry(1, "name"), Entry(0, "alias")>>,
    <<Entry(2, "id")>>,
    <<Entry(0, "bogus")>>,
    <<Entry(0, "bogus"), Entry(1, "alias")>>,
    <<Entry(0, "__init__")>> }

HeroListRequests ==
  { [NoRequest EXCEPT !.via = "get_list", !.limit = l, !.offset = o,
                      !.search = s, !.order_by = ob] :
      l \in {Nothing, Some(0), Some(1), Some(2)},
      o \in {Nothing, Some(0), Some(1), Some(4)},
      s \in {None, "", "bat", "BAT", "_", "zz"},
      ob \in HeroOrderBys }

\* Heroes already stored, one list request received.
InitList ==
  /\ heroes \in Tables(HeroListRows)
  /\ hero_seq = Len(heroes)
  /\ cache = << >>
  /\ req = [r \in Reqs |-> IdleReq]
  /\ staleG = << >>
  /\ users = << >>
  /\ auth_cache = << >>
  /\ areq = IdleAuth
  /\ collections = << >>
  /\ coll_seq = 0
  /\ collection_hero = {}
  /\ last = NoLast
  /\ listing \in {[NoListing EXCEPT !.request = rq] : rq \in HeroListRequests}
  /\ ureq = [r \in Reqs |-> IdleUser]
  /\ envelope = NoEnvelope

\* The same list request executed once, and once more.
NextList == GetList

SpecList == InitList /\ [][NextList]_vars

CollectionOrderBys ==
  { << >>,
    <<Entry(1, "title")>>,
    <<Entry(0, "bogus"), Entry(0, "title")>>,
    <<Entry(0, "metadata")>> }

CollectionListRequests ==
  { [NoRequest EXCEPT !.via = v[1], !.repo = v[2], !.user = u, !.user_id = f,
                      !.limit = l, !.offset = o, !.search = s, !.order_by = ob] :
      v \in {<<"get_all", "CollectionRepository">>,
             <<"scoped_get_list", "CollectionRepository">>,
             <<"scoped_get_list", "RepositoryBase">>},
      u \in {1, 2},
      f \in {Nothing, Some(1)},
      l \in {Nothing, Some(1)},
      o \in {Nothing, Some(0), Some(1)},
      s \in {None, "fav", "_"},
      ob \in CollectionOrderBys }

\* Two registered users, collections already stored, one list request received.
InitCollList ==
  /\ heroes = << >>
  /\ hero_seq = 0
  /\ cache = << >>
  /\ req = [r \in Reqs |-> IdleReq]
  /\ staleG = << >>
  /\ users = <<[username |-> "alice", password_hash |-> GetPasswordHash("pw")],
               [username |-> "bob", password_hash |-> GetPasswordHash("pw")]>>
  /\ auth_cache = << >>
  /\ areq = IdleAuth
  /\ collections \in Tables(CollectionListRows)
  /\ coll_seq = Len(collections)
  /\ collection_hero = {}
  /\ last = NoLast
  /\ listing \in {[NoListing EXCEPT !.request = rq] : rq \in CollectionListRequests}
  /\ ureq = [r \in Reqs |-> IdleUser]
  /\ envelope = NoEnvelope

NextCollList == GetAll \/ ScopedGetList

SpecCollList == InitCollList /\ [][NextCollList]_vars

\* Pages 1 and 2 of a hero list, asked for one after the other.
HeroPageRequests ==
  { [NoRequest EXCEPT !.via = "get_list_pages", !.limit = Some(l), !.search = s,
                      !.order_by = ob] :
      l \in {1, 2},
      s \in {None, "bat", "zz"},
      ob \in HeroOrderBys }

InitPages ==
  /\ heroes \in Tables(HeroListRows)
  /\ hero_seq = Len(heroes)
  /\ cache = << >>
  /\ req = [r \in Reqs |-> IdleReq]
  /\ staleG = << >>
  /\ users = << >>
  /\ auth_cache = << >>
  /\ areq = IdleAuth
  /\ collections = << >>
  /\ coll_seq = 0
  /\ collection_hero = {}
  /\ last = NoLast
  /\ listing \in {[NoListing EXCEPT !.request = rq] : rq \in HeroPageRequests}
  /\ ureq = [r \in Reqs |-> IdleUser]
  /\ envelope = NoEnvelope

NextPages == GetListPage

SpecPages == InitPages /\ [][NextPages]_vars

\* Pagination envelopes over every total, limit, offset and page up to the bounds.
MaxTotal == 6
MaxLimit == 3
MaxPage == 4

EnvelopeRequests ==
  { [NoEnvelope EXCEPT !.via = "service", !.total = t, !.limit = l, !.offset = o] :
      t \in 0..MaxTotal,
      l \in {Nothing} \cup {Some(n) : n \in 0..MaxLimit},
      o \in {Nothing} \cup {Some(n) : n \in 0..MaxTotal} }
  \cup
  { [NoEnvelope EXCEPT !.via = "route", !.total = t, !.limit = Some(l), !.page = pg] :
      t \in 0..MaxTotal, l \in 1..MaxLimit, pg \in 1..MaxPage }

InitEnvelope ==
  /\ heroes = << >>
  /\ hero_seq = 0
  /\ cache = << >>
  /\ req = [r \in Reqs |-> IdleReq]
  /\ staleG = << >>
  /\ users = << >>
  /\ auth_cache = << >>
  /\ areq = IdleAuth
  /\ collections = << >>
  /\ coll_seq = 0
  /\ collection_hero = {}
  /\ last = NoLast
  /\ listing = NoListing
  /\ ureq = [r \in Reqs |-> IdleUser]
  /\ envelope \in EnvelopeRequests

NextEnvelope == GetHeroesEnvelope \/ ListHeroesEnvelope

SpecEnvelope == InitEnvelope /\ [][NextEnvelope]_vars

----------------------------------------------------------------------------
(* Claims about the cache-aside layer *)

\* C3 (state part): a hit returns the deserialized cached text without any repository
\* query; a miss that returns has made exactly one query and returns the fetched record.
C3_HitInv ==
  /\ \A r \in Reqs :
       (req[r].op = "get_hero" /\ req[r].pc \in {"commit", "done"} /\ req[r].err = "none")
         => IF req[r].hit
            THEN req[r].queries = 0 /\ req[r].ret = HeroValidateJson(req[r].cached)
            ELSE req[r].queries = 1
                 /\ req[r].ret = HeroResponseValidate(req[r].id, req[r].db_obj)
  /\ (areq.pc = "resolved")
         => IF areq.hit
            THEN areq.queries = 0 /\ areq.user = UserValidateJson(areq.cached)
            ELSE areq.queries = 1 /\ areq.user.username = areq.username

\* C3 (step part): redis.get on a present key ends the lookup with a hit; the step
\* that returns after a miss has stored, under the key and with the TTL, a text that
\* deserializes to the very value returned.
C3_Step ==
  /\ \A r \in Reqs :
       /\ (req[r].pc = "redis_get" /\ req[r].id \in DOMAIN cache /\ req'[r] # req[r])
            => (req'[r].hit /\ req'[r].pc = "commit" /\ cache' = cache)
       /\ (req[r].pc = "redis_get" /\ req[r].id \notin DOMAIN cache /\ req'[r] # req[r])
            => (~req'[r].hit /\ req'[r].pc = "repo_get")
       /\ (req[r].pc = "redis_set" /\ req'[r].pc = "commit")
            => /\ req[r].id \in DOMAIN cache'
               /\ cache'[req[r].id].ex = CACHE_TTL
               /\ HeroValidateJson(cache'[req[r].id].json) = req'[r].ret
               /\ req'[r].ret = HeroResponseValidate(req[r].id, req[r].db_obj)
  /\ (areq.pc = "redis_get" /\ areq.username \in DOMAIN auth_cache /\ areq' # areq)
       => (areq'.hit /\ areq'.pc = "resolved" /\ auth_cache' = auth_cache)
  /\ (areq.pc = "redis_get" /\ areq.username \notin DOMAIN auth_cache /\ areq' # areq)
       => (~areq'.hit /\ areq'.pc = "db")
  /\ (areq.pc = "redis_set" /\ areq'.pc = "resolved")
       => /\ areq.username \in DOMAIN auth_cache'
          /\ auth_cache'[areq.username].ex = CACHE_TTL
          /\ UserValidateJson(auth_cache'[areq.username].json) = areq'.user

\* C3: read-through, for the hero cache and for the identity cache.
C3_ReadThrough == [](C3_HitInv) /\ [][C3_Step]_vars

\* C3 witness: a hero hit and an identity miss that stored and returned have both happened.
C3_Witness ==
  /\ req[1].op = "get_hero" /\ req[1].pc = "done" /\ req[1].hit
  /\ areq.pc = "resolved" /\ ~areq.hit /\ areq.username \in DOMAIN auth_cache

\* C4 (state part): every cache entry is the text of a record of its key; there is
\* no entry for a hero id that was never stored or a username that has no row.
C4_NoNegativeEntry ==
  /\ \A k \in DOMAIN cache :
       /\ k <= hero_seq
       /\ HeroValidateJson(cache[k].json).id = k
       /\ HeroValidateJson(cache[k].json).name \in Names
       /\ HeroValidateJson(cache[k].json).alias \in Aliases
  /\ \A k \in DOMAIN auth_cache :
       /\ GetByUsername(k) # 0
       /\ UserValidateJson(auth_cache[k].json) = [id |-> GetByUsername(k), username |-> k]

\* C4 (step part): the storage lookup of a missing record fails the request
\* (NotFound for a hero) and neither it nor the rollback after it touches the cache.
C4_Step ==
  /\ \A r \in Reqs :
       /\ (req[r].op = "get_hero" /\ req[r].pc = "repo_get"
             /\ req[r].id \notin DOMAIN heroes /\ req'[r] # req[r])
            => (req'[r].err = "NotFound" /\ req'[r].pc = "rollback" /\ cache' = cache)
       /\ (req[r].op = "get_hero" /\ req[r].pc = "rollback" /\ req'[r] # req[r])
            => (req'[r].pc = "done" /\ req'[r].err = "NotFound" /\ cache' = cache)
  /\ (areq.pc = "db" /\ GetByUsername(areq.username) = 0 /\ areq' # areq)
       => (areq'.pc \in {"failed", "rejected"} /\ auth_cache' = auth_cache)

\* C4: a miss on a record that storage does not have leaves the cache as it was.
C4_MissOnMissing == [](C4_NoNegativeEntry) /\ [][C4_Step]_vars

\* C4 witness: both lookups of a missing record have failed, nothing cached for them.
C4_Witness ==
  /\ req[1].op = "get_hero" /\ req[1].pc = "done" /\ req[1].err = "NotFound"
  /\ req[1].id \notin DOMAIN cache
  /\ areq.pc = "failed" /\ areq.username \notin DOMAIN auth_cache

----------------------------------------------------------------------------
(* Claims about the bearer-token validator *)

\* C5: a validly decoded token whose username is neither cached nor stored ends
\* Rejected, with the 401 credentials error and no principal.
C5_UnknownUserRejected ==
  (areq.pc \in {"resolved", "rejected", "failed"} /\ areq.username # None
     /\ ~areq.hit /\ GetByUsername(areq.username) = 0)
    => (areq.pc = "rejected" /\ areq.err = CredentialsException /\ areq.user = NoUser)

\* C6: every credential ends Resolved or Rejected; a principal is yielded only for a
\* decoded token with a sub claim, and carries that username; every rejection is the
\* one 401 credentials error.
C6_AuthStateMachine ==
  /\ areq.pc \in {"idle", "decode", "redis_get", "db", "redis_set", "resolved", "rejected"}
  /\ (areq.pc = "resolved")
       => (JwtDecode(areq.token).ok /\ areq.token.sub # None
           /\ areq.user.username = areq.token.sub /\ areq.err = NoError)
  /\ (areq.pc = "rejected")
       => (areq.err = CredentialsException /\ areq.user = NoUser)
  /\ (areq.pc \in {"resolved", "rejected", "failed"}
        /\ (~JwtDecode(areq.token).ok \/ areq.token.sub = None))
       => (areq.pc = "rejected" /\ areq.err = CredentialsException)

\* C2: a get_hero that began after an update_hero or delete_hero of the same hero
\* was acknowledged never returns a value that mutation (or an earlier one) replaced:
\* req[r].stale holds the values superseded by the mutations acknowledged before
\* request r began, less the values a later commit made current again.
C2_NoStaleReadAfterAck ==
  \A r \in Reqs :
    (req[r].op = "get_hero" /\ req[r].pc = "done" /\ req[r].err = "none")
      => HeroDumpJson(req[r].ret) \notin req[r].stale

----------------------------------------------------------------------------
(* Claims about collections: ownership, partial update, uniqueness *)

\* An operation of the proxy that first performs the ownership-checked get.
ScopedOps == {"scoped_get", "scoped_update", "scoped_delete", "scoped_add_hero"}

\* C1: a get, update, delete or add_hero issued through the proxy of a principal
\* who is not the owner of the collection fails, returns no record, and leaves the
\* collection rows and the join rows exactly as they were.
C1_Step ==
  (last'.op \in ScopedOps /\ last'.id \in DOMAIN collections
     /\ collections[last'.id].user_id # last'.user)
    => /\ last'.err # "none"
       /\ last'.ret = NoColl
       /\ collections' = collections
       /\ collection_hero' = collection_hero
       /\ coll_seq' = coll_seq

C1_OwnershipIsolation == [][C1_Step]_vars

\* C1 witness: a delete through the proxy of a non-owner was refused by the ownership
\* test, on a collection that has a join row, and both are still there.
C1_Witness ==
  /\ last.op = "scoped_delete" /\ last.err = "Forbidden"
  /\ last.id \in DOMAIN collections
  /\ collections[last.id].user_id # last.user
  /\ \E p \in collection_hero : p[1] = last.id

\* C7: an update of an existing record, by its owner, with no field supplied is not
\* an error, returns the record with every field as stored, and performs no write.
C7_EmptyUpdateNoOp ==
  (/\ \/ last.op = "update"
      \/ last.op = "scoped_update" /\ last.repo = "RepositoryBase"
   /\ ModelDumpExcludeUnset(last.obj_in) = {}
   /\ last.id \in DOMAIN collections
   /\ collections[last.id].user_id = last.user)
    => (last.err = "none" /\ ~last.flushed /\ last.ret = CollObj(last.id))

\* The update of the step is one the repository carried out on an existing record of
\* the caller, with at least one field supplied, and its title is not one the same
\* owner already holds on another record.
UpdateApplies ==
  /\ \/ last'.op = "update"
     \/ last'.op = "scoped_update" /\ last'.repo = "RepositoryBase"
  /\ ModelDumpExcludeUnset(last'.obj_in) # {}
  /\ last'.id \in DOMAIN collections
  /\ collections[last'.id].user_id = last'.user
  /\ ~\E c \in DOMAIN collections :
        /\ c # last'.id
        /\ collections[c].user_id = last'.user
        /\ collections[c].title = last'.obj_in.title

\* C8: update changes exactly the supplied fields: a supplied field, null included,
\* has the supplied value afterwards; an omitted field keeps its value.
C8_Step ==
  UpdateApplies
    => /\ last'.id \in DOMAIN collections'
       /\ \A f \in {"title", "description"} :
            collections'[last'.id][f] =
              IF f \in ModelDumpExcludeUnset(last'.obj_in)
              THEN last'.obj_in[f] ELSE collections[last'.id][f]
       /\ collections'[last'.id].user_id = collections[last'.id].user_id

C8_PartialUpdateFrame == [][C8_Step]_vars

\* The heroes that hold alias a, the collections of user u titled t.
HeroesWithAlias(a) == {h \in DOMAIN heroes : heroes[h].alias = a}
CollectionsTitled(t, u) ==
  {c \in DOMAIN collections : collections[c].title = t /\ collections[c].user_id = u}

\* C9 (state part): no two heroes share an alias, no two collections of one owner
\* share a title.
C9_Unique ==
  /\ \A h \in DOMAIN heroes : HeroesWithAlias(heroes[h].alias) = {h}
  /\ \A c \in DOMAIN collections :
       CollectionsTitled(collections[c].title, collections[c].user_id) = {c}

\* C9 (step part): a create whose unique key is already held fails with AlreadyExists
\* and stores nothing, the records already stored staying as they are; a collection
\* create whose title is held only by other owners succeeds and stores the record.
C9_Step ==
  /\ \A r \in Reqs :
       /\ (req[r].op = "create_hero" /\ req[r].pc = "create_flush" /\ req'[r] # req[r])
            => IF HeroesWithAlias(req[r].obj_in.alias) # {}
               THEN /\ req'[r].err = "AlreadyExists" /\ req'[r].pc = "rollback"
                    /\ req'[r].tx = NoTx
                    /\ heroes' = heroes /\ hero_seq' = hero_seq
               ELSE /\ req'[r].err = "none" /\ req'[r].pc = "commit"
                    /\ req'[r].tx.kind = "insert" /\ req'[r].tx.row = req[r].obj_in
       /\ (req[r].op = "create_hero" /\ req[r].pc = "rollback" /\ req'[r] # req[r])
            => (req'[r].err = "AlreadyExists" /\ req'[r].pc = "done" /\ heroes' = heroes)
       /\ (req[r].op = "create_hero" /\ req[r].pc = "commit" /\ req'[r] # req[r])
            => /\ \A h \in DOMAIN heroes : h \in DOMAIN heroes' /\ heroes'[h] = heroes[h]
               /\ req[r].tx.id \in DOMAIN heroes' \ DOMAIN heroes
               /\ heroes'[req[r].tx.id] = req[r].obj_in
  /\ (last'.op = "create")
       => IF CollectionsTitled(last'.obj_in.title, last'.user) # {}
          THEN /\ last'.err = "AlreadyExists"
               /\ collections' = collections /\ coll_seq' = coll_seq
          ELSE /\ last'.err = "none"
               /\ DOMAIN collections' = DOMAIN collections \cup {last'.id}
               /\ last'.id \notin DOMAIN collections
               /\ \A c \in DOMAIN collections : collections'[c] = collections[c]
               /\ collections'[last'.id] =
                    [title |-> last'.obj_in.title,
                     description |-> last'.obj_in.description, user_id |-> last'.user]

\* C9: uniqueness on create, for heroes (alias) and collections (title with owner).
C9_UniqueOnCreate == [](C9_Unique) /\ [][C9_Step]_vars

\* C9 witness: with two collections of the same title stored for two owners, a further
\* create of that title by one of them was refused with AlreadyExists.
C9_Witness ==
  /\ last.op = "create" /\ last.err = "AlreadyExists"
  /\ \E c, d \in DOMAIN collections :
       /\ collections[c].title = last.obj_in.title
       /\ collections[d].title = last.obj_in.title
       /\ collections[c].user_id = last.user
       /\ collections[d].user_id # last.user
  /\ heroes # << >>

----------------------------------------------------------------------------
(* Claims about the repository boundary *)

\* The errors of core/exceptions.py that a repository operation may raise.
Taxonomy == {"none", "NotFound", "AlreadyExists", "Forbidden", "Unauthorized"}

\* C10: every hero request ends with the result or with an error of the taxonomy.
C10_TaxonomyOnly ==
  \A r \in Reqs : req[r].err \in Taxonomy

----------------------------------------------------------------------------
(* Claims about listing *)

\* text contains search as a substring, letter case set aside; NULL contains nothing.
Contains(search, value) ==
  /\ value # None
  /\ LET needle == LowerSeq(Chars(search))
         hay == LowerSeq(Chars(value))
     IN \E i \in 0..(Len(hay) - Len(needle)) :
           SubSeq(hay, i + 1, i + Len(needle)) = needle

\* The heroes a search argument designates: all of them without a search, otherwise
\* those holding it as a substring of name, alias or powers.
HeroesContaining(search) ==
  {id \in DOMAIN heroes :
     search \notin {None, ""}
       => \E f \in {"name", "alias", "powers"} : Contains(search, Field(heroes, id, f))}

\* C11: the total a hero list request returns is the number of heroes that match its
\* search, whatever limit and offset it carries.
C11_TotalIsMatchCount ==
  (listing.request.via = "get_list" /\ listing.n >= 1 /\ listing.first.err = "none")
    => listing.first.total = Cardinality(HeroesContaining(listing.request.search))

\* C12: the items of a hero list request are the heroes holding the search string as
\* a substring of a search field, in an order the sort keys allow, from position
\* offset, at most limit of them.
C12_ItemsAreReferencePage ==
  (listing.request.via = "get_list" /\ listing.n >= 1 /\ listing.first.err = "none")
    => \E q \in Orders(heroes, HeroesContaining(listing.request.search),
                       Clauses("Hero", listing.request.order_by)) :
          listing.first.items = Page(q, listing.request.limit, listing.request.offset)

\* C13: no order_by makes a list request fail.
C13_OrderByNeverFails ==
  (listing.request.via = "get_list" /\ listing.n >= 1) => listing.first.err = "none"

\* C14: two executions of one list request over the same rows return the same items
\* in the same order.
C14_SameOrderTwice ==
  (listing.request.via = "get_list" /\ listing.n = 2)
    => listing.second.items = listing.first.items


----------------------------------------------------------------------------
(* Claims about the scoping proxy and the join table *)

\* The operations that address one collection on behalf of a principal.
AddressedOps ==
  {"get", "update", "delete", "scoped_get", "scoped_update", "scoped_delete",
   "scoped_add_hero"}

\* C15: on every collection code path (get, update, delete, attach) an access by a
\* principal who does not own an existing collection fails with Forbidden; NotFound
\* is never the answer to a non-owner of a collection that exists.
C15_OneOwnershipPolicy ==
  (/\ last.op \in AddressedOps
   /\ last.id \in DOMAIN collections
   /\ collections[last.id].user_id # last.user)
    => last.err = "Forbidden"

\* C16: the create call the proxy makes is accepted by the repository it wraps, and
\* a collection created through the proxy of principal P is stored with user_id = P
\* and returned as persisted.
C16_OwnerInjectedOnCreate ==
  last.op = "scoped_create" =>
    /\ last.err \notin {"TypeError", "AttributeError"}
    /\ last.err = "none" =>
         /\ last.id \in DOMAIN collections
         /\ collections[last.id].user_id = last.user
         /\ last.ret = CollObj(last.id)

\* The collections of principal u.
OwnedBy(u) == {c \in DOMAIN collections : collections[c].user_id = u}

\* The results the list request has returned so far.
Returned ==
  IF listing.n = 0 THEN {}
  ELSE IF listing.n = 1 THEN {listing.first}
  ELSE {listing.first, listing.second}

\* C17: get_list through the proxy of principal P returns only collections whose
\* user_id is P's id and a total that counts only those, for every search, order_by,
\* limit and offset; a user_id filter passed by the caller is replaced by P's id.
C17_ScopedListOnlyOwn ==
  listing.request.via = "scoped_get_list" =>
    \A result \in Returned :
      result.err = "none" =>
        /\ \A i \in 1..Len(result.items) : result.items[i] \in OwnedBy(listing.request.user)
        /\ result.total = Cardinality(OwnedBy(listing.request.user))

\* Principal 2 lists with a filter user_id = 1 while principal 1 has collections too,
\* and receives a collection of its own.
C17_Witness ==
  /\ listing.request.via = "scoped_get_list"
  /\ listing.request.user = 2
  /\ listing.request.user_id = Some(1)
  /\ OwnedBy(1) # {}
  /\ listing.n >= 1
  /\ listing.first.err = "none"
  /\ listing.first.total >= 1
  /\ Len(listing.first.items) >= 1

\* C18: attaching a hero that is already attached to the collection fails with
\* AlreadyExists and leaves the join table as it is (the attach is made by the owner
\* through the proxy, or directly on the repository).
C18_AttachedTwiceIsAlreadyExists ==
  (/\ last.op \in {"add_hero", "scoped_add_hero"}
   /\ <<last.id, last.hero_id>> \in collection_hero
   /\ last.op = "scoped_add_hero" => collections[last.id].user_id = last.user
   /\ last.err # "none")
    => last.err = "AlreadyExists"

\* C19: delete(id) of an existing record removes it and returns the removed record.
C19_DeleteReturnsRemoved ==
  (last.op = "scoped_delete" /\ last.err = "none")
    => (last.id \notin DOMAIN collections /\ last.ret.id = last.id)

\* C20: every collection_hero row references a collection and a hero that both
\* still exist, after any sequence of creations, attachments and deletions;
\* a deleted collection leaves no join row behind.
C20_JoinRowsReferToExisting ==
  \A p \in collection_hero : p[1] \in DOMAIN collections /\ p[2] \in DOMAIN heroes

\* A collection with an attached hero was deleted, and its join rows went with it.
C20_Witness ==
  /\ last.op \in {"delete", "scoped_delete"}
  /\ last.err = "none"
  /\ last.cascaded # {}
  /\ \A p \in last.cascaded : p[1] = last.id /\ p[2] \in DOMAIN heroes
  /\ \A p \in collection_hero : p[1] # last.id

----------------------------------------------------------------------------
(* Claims about requests, transactions and users *)

\* C21: the storage writes of one request are committed together when the request
\* ends, and no repository operation commits part of a request on its own: while
\* a registration request is still being handled, its row is not in storage.
C21_RequestAtomicity ==
  \A p \in Reqs :
    (ureq[p].op = "register" /\ ureq[p].pc \notin {"idle", "done"})
      => ureq[p].id \notin DOMAIN users

\* C24: of two UserRepository.create calls with the same username the one that
\* does not succeed fails with AlreadyExists, never with a raw storage error.
C24_LoserGetsAlreadyExists ==
  \A p \in Reqs :
    (ureq[p].op = "register" /\ ureq[p].pc = "done" /\ ureq[p].err # NoError)
      => ureq[p].err = UsernameRegistered

\* The login requests that were answered with an error.
FailedLogins ==
  {p \in Reqs : ureq[p].op = "login" /\ ureq[p].pc \in {"rollback", "done"}
                /\ ureq[p].err # NoError}

\* C29: authenticate issues a token only for an existing user whose password
\* verifies, with sub the username; a nonexistent username and a wrong password
\* are answered with the identical Unauthorized error.
C29_UniformLoginFailure ==
  /\ \A p \in Reqs :
       (ureq[p].op = "login" /\ ureq[p].pc \in {"exit", "rollback", "done"}) =>
         IF ureq[p].token # NoToken
         THEN /\ ureq[p].err = NoError
              /\ ureq[p].existing \in DOMAIN users
              /\ users[ureq[p].existing].username = ureq[p].username
              /\ VerifyPassword(ureq[p].password, users[ureq[p].existing].password_hash)
              /\ ureq[p].token.sub = ureq[p].username
         ELSE /\ ureq[p].err.status_code = 401
              /\ ureq[p].existing = 0
                   \/ ~VerifyPassword(ureq[p].password,
                                      users[ureq[p].existing].password_hash)
  /\ \A p, q \in FailedLogins : ureq[p].err = ureq[q].err

\* One login failed for a username nobody has, another for a wrong password.
C29_Witness ==
  \E p, q \in FailedLogins :
    /\ ureq[p].existing = 0
    /\ ureq[q].existing # 0
    /\ ureq[q].password = "bad"

----------------------------------------------------------------------------
(* Claims about the pagination envelopes *)

\* n is ceil(total / limit) for limit > 0: the least n with n * limit >= total.
IsCeil(n, total, limit) ==
  /\ n >= 0
  /\ n * limit >= total
  /\ n > 0 => (n - 1) * limit < total

\* C22: for all total, offset, limit >= 0 the assembler of get_heroes /
\* get_collections returns page = offset div limit + 1 and pages = ceil(total / limit)
\* when limit > 0, returns pages = 0 without failing when limit is 0, and returns
\* no pagination info when limit or offset is absent.
C22_PaginationEnvelope ==
  (envelope.via = "service" /\ envelope.done) =>
    /\ envelope.err = "none"
    /\ IF envelope.limit = Nothing \/ envelope.offset = Nothing
       THEN envelope.info = Nothing
       ELSE /\ envelope.info # Nothing
            /\ envelope.limit[1] > 0 =>
                 /\ envelope.info[1].page = envelope.offset[1] \div envelope.limit[1] + 1
                 /\ IsCeil(envelope.info[1].pages, envelope.total, envelope.limit[1])
            /\ envelope.limit[1] = 0 => envelope.info[1].pages = 0

\* C23: in the envelope of list_heroes, for page >= 1, limit >= 1, total >= 0:
\* totalPages is ceil(total / limit), previousPage is page - 1 exactly when page > 1,
\* nextPage is page + 1 exactly when page < totalPages, and hasMore is true exactly
\* when nextPage is not null.
C23_BoundaryFlags ==
  (envelope.via = "route" /\ envelope.done) =>
    LET pg == envelope.pagination IN
    /\ pg.currentPage = envelope.page
    /\ pg.totalItems = envelope.total
    /\ IsCeil(pg.totalPages, envelope.total, envelope.limit[1])
    /\ pg.previousPage = (IF envelope.page > 1 THEN <<envelope.page - 1>> ELSE << >>)
    /\ pg.nextPage = (IF envelope.page < pg.totalPages THEN <<envelope.page + 1>> ELSE << >>)
    /\ pg.hasMore <=> (pg.nextPage # << >>)
    /\ envelope.offset = <<(envelope.page - 1) * envelope.limit[1]>>

\* The last page of several: a previous page, no next page, nothing more.
C23_Witness ==
  /\ envelope.via = "route"
  /\ envelope.done
  /\ envelope.page > 1
  /\ envelope.page = envelope.pagination.totalPages
  /\ envelope.pagination.previousPage # << >>
  /\ envelope.pagination.nextPage = << >>
  /\ ~envelope.pagination.hasMore

----------------------------------------------------------------------------
(* Claims about error kinds, invalidation and immutability *)

\* C25: add_hero raises AlreadyExists only when the pair (collection_id, hero_id)
\* is already in the join table; a hero_id that names no hero is not reported so.
C25_AlreadyExistsMeansConflict ==
  (/\ last.op = "add_hero"
   /\ last.id \in DOMAIN collections
   /\ last.err = "AlreadyExists")
    => <<last.id, last.hero_id>> \in collection_hero

Mutations == {"update_hero", "delete_hero"}

\* One step of request r in update_hero or delete_hero.
C26_Step(r) ==
  (req[r].op \in Mutations /\ req'[r].op = req[r].op /\ req'[r] # req[r]) =>
    \* the method returns only through the invalidation step
    /\ (req'[r].pc = "commit") => req[r].pc \in {"upd_invalidate", "del_invalidate"}
    \* which follows the repository call, and only when that call did not raise
    /\ (req'[r].pc \in {"upd_invalidate", "del_invalidate"}) =>
         /\ req[r].pc \in {"upd_flush", "del_flush"}
         /\ req'[r].err = "none"
         /\ req'[r].flushed \/ ModelDumpExcludeUnset(req[r].obj_in) = {}
    \* and leaves the key out of the cache
    /\ (req[r].pc \in {"upd_invalidate", "del_invalidate"}) => req[r].id \notin DOMAIN cache'
    \* a request that ends with NotFound leaves the cache as it is
    /\ (req'[r].err = "NotFound") => cache' = cache

\* C26: in update_hero and delete_hero the key hero:{id} is removed from the cache
\* after the storage write and before the operation returns, for every successful
\* mutation; when the repository raises NotFound the cache is left unchanged.
C26_InvalidationOrder == [][\A r \in Reqs : C26_Step(r)]_vars

\* An update was flushed and its method returned after removing a cached key.
C26_Witness ==
  \E r \in Reqs :
    /\ req[r].op \in Mutations
    /\ req[r].pc = "commit"
    /\ req[r].flushed
    /\ req[r].tx.kind \in {"update", "delete"}
    /\ req[r].removed = 1
    /\ req[r].id \notin DOMAIN cache

\* One step keeps the owner of every collection that exists before and after it,
\* and an update answers with the id and the owner the collection had.
C27_Step ==
  /\ \A c \in DOMAIN collections \cap DOMAIN collections' :
       collections'[c].user_id = collections[c].user_id
  /\ \A c \in DOMAIN collections' \ DOMAIN collections :
       c > coll_seq /\ collections'[c].user_id = last'.user
  /\ (last'.op \in {"update", "scoped_update"} /\ last'.err = "none") =>
       /\ last'.ret.id = last'.id
       /\ last'.ret.user_id = collections[last'.id].user_id

\* C27: after any sequence of create, update, delete and add_hero operations by any
\* principals each existing collection has the id and the user_id it was given at
\* creation; no update input changes either.
C27_IdAndOwnerImmutable == [][C27_Step]_vars

\* An update changed a collection, whose id and owner are as before.
C27_Witness ==
  /\ last.op \in {"update", "scoped_update"}
  /\ last.err = "none"
  /\ last.flushed
  /\ last.id \in DOMAIN collections
  /\ collections[last.id].title = "Best"
  /\ collections[last.id].user_id = last.user
  /\ last.ret.id = last.id

\* Every serialized value of hero id that a committed transaction has left in storage.
Committed(id) ==
  (IF id \in DOMAIN staleG THEN staleG[id] ELSE {})
    \cup (IF id \in DOMAIN heroes
          THEN {HeroDumpJson(HeroResponseValidate(id, heroes[id]))} ELSE {})

\* C28: under any interleaving of create_hero, get_hero, update_hero, delete_hero
\* and rollbacks, every entry hero:X of the cache is a state of hero X that was
\* committed to storage at some point.
C28_CacheHoldsCommitted ==
  \A k \in DOMAIN cache : cache[k].json \in Committed(k)

\* An update was flushed and is being rolled back while the cache holds the hero:
\* the cached value is not the one the transaction wrote.
C28_Witness ==
  \E r \in Reqs :
    /\ req[r].op = "update_hero"
    /\ req[r].flushed
    /\ req[r].err = "ConnectionError"
    /\ req[r].pc = "rollback"
    /\ req[r].tx.kind = "update"
    /\ req[r].id \in DOMAIN cache
    /\ cache[req[r].id].json # HeroDumpJson(HeroResponseValidate(req[r].id, req[r].tx.row))

----------------------------------------------------------------------------
(* Claim about paging through a list *)

\* C30: for fixed stored records, search and order_by and a page size limit >= 1,
\* the pages returned for offsets 0, limit, ... up to total hold every matching
\* record exactly once, and each page holds at most limit items (here: the totals
\* that two pages cover).
C30_PagesPartition ==
  (/\ listing.request.via = "get_list_pages"
   /\ listing.n = 2
   /\ listing.first.err = "none" /\ listing.second.err = "none"
   /\ listing.first.total <= 2 * listing.request.limit[1])
    => LET all == listing.first.items \o listing.second.items
           matching == Selected(heroes, "Hero", Nothing, listing.request.search,
                                {"name", "alias", "powers"})
       IN /\ Len(listing.first.items) <= listing.request.limit[1]
          /\ Len(listing.second.items) <= listing.request.limit[1]
          /\ \A id \in matching : Cardinality({i \in 1..Len(all) : all[i] = id}) = 1
          /\ \A i \in 1..Len(all) : all[i] \in matching

============================================================================
